---- MODULE Spec2Model ----
(***************************************************************************)
(* Verification model of the Figma email assistant: the plugin-side        *)
(* heuristic detection (src/code.ts), the panel (src/ui.ts), the           *)
(* text-analysis endpoint (api/analyze.ts) and the vision endpoint         *)
(* (api/vision.ts).                                                        *)
(*                                                                         *)
(* Conventions of the model:                                               *)
(*  - a JavaScript string is a TLA+ string; the text of a model reply,      *)
(*    which the code scans for brackets and parses, is a token sequence;   *)
(*  - a confidence is an integer number of hundredths (0.9 is 90);         *)
(*  - a JavaScript null/undefined field is the string "undefined".         *)
(***************************************************************************)
EXTENDS Integers, Sequences, FiniteSets, TLC

VARIABLES
    hPage,      \* heuristic pass: the nodes of figma.currentPage, in findAll() order
    hMode,      \* heuristic pass: "idle", or the mode of the last detection ("patterns" / "scanAll")
    hOut,       \* heuristic pass: the list returned by the last detectEmailOpportunities call
    hPrev,      \* heuristic pass: mode and result of the call before the last one
    aFrames,    \* text endpoint: the frames of the request body
    aOutcome,   \* text endpoint: what anthropic.messages.create did ("none" before the call)
    aResponse,  \* text endpoint: the Response returned by the handler (status 0 before)
    vFrames,    \* vision endpoint: the frames of the request body
    vCalls,     \* vision endpoint: what each model call made so far did, in call order
    vInFlight,  \* vision endpoint: the indices of the frames whose model call is pending
    vAnalyses,  \* vision endpoint: the handler's local array `analyses`
    vResponse,  \* vision endpoint: the Response returned by the handler (status 0 before)
    page,           \* plugin: the nodes of figma.currentPage, in findAll() order
    initialScan,    \* plugin: TRUE while the start-up timer of code.ts 890 is pending
    uiToPlugin,     \* messages posted by the panel, not yet handled by figma.ui.onmessage
    pluginToUi,     \* messages posted by the plugin, not yet handled by window.onmessage
    opportunities,  \* panel: the list `opportunities` (ui.ts 3)
    aiAnalysis,     \* panel: the map `aiAnalysis` (ui.ts 6), frame id to record
    view,           \* panel: what #opportunities-list shows
    analyses,       \* panel: the analyzeWithAI invocations that have not returned, oldest
                    \* first; each with its position pc and its local framesData, and as
                    \* history the list and the number of requested passes when it was
                    \* started (before, due) and the pass count when it sent (pass)
    pass,           \* history: the number of 'opportunities-detected' messages handled
    jOpps,      \* join by frameId: the opportunities before a response is applied
    jItems,     \* join by frameId: the records the model replied, in reply order
    jPerm,      \* join by frameId: the same records in another order
    jOutA,      \* join by frameId: the list after the reply in the order jItems
    jOutB,      \* join by frameId: the list after the reply in the order jPerm
    apiUrl,         \* panel: the trimmed value of the #api-url field ("" when empty)
    exportedFrames, \* panel: the list `exportedFrames` (ui.ts 8)
    flowSummary,    \* panel: `flowSummary` (ui.ts 9), JNull before the first summary
    textRun,        \* panel: analyzeWithAI is "idle", awaiting ("wait") or has returned ("done")
    visionRun,      \* panel: the visual analysis is "idle", awaiting ("wait") or has returned ("done")
    textReply,      \* what the text endpoint's model call does when it is asked
    visionReply,    \* what the vision endpoint does when it is asked
    textResult,     \* history: the records the text channel produced, <<>> before
    visionResult,   \* history: the analyses the vision channel produced, <<>> before
    fetched,        \* history: the endpoints the panel has called fetch() on
    currentOpportunity, \* panel: `currentOpportunity` (ui.ts 5), [id |-> "null"] when it is null
    subjectInput,       \* panel: the value of #subject-input
    bodyInput,          \* panel: the value of #body-input
    copyCalls,          \* panel: the callAIAPI promises not yet resolved, oldest first, each
                        \* with its opportunity and, as history, the number of its generation
    generation,         \* history: the number of generateEmail calls that selected an opportunity
    fonts,              \* document: the fonts figma.loadFontAsync can load
    notifications,      \* plugin: the texts passed to figma.notify, oldest first
    creating            \* plugin: the 'create-email' invocations awaiting their fonts, each
                        \* with its message and the ids of the nodes it created

heurVars == <<hPage, hMode, hOut, hPrev>>

analyzeVars == <<aFrames, aOutcome, aResponse>>

visionVars == <<vFrames, vCalls, vInFlight, vAnalyses, vResponse>>

panelVars ==
    <<page, initialScan, uiToPlugin, pluginToUi, opportunities, aiAnalysis, view,
      analyses, pass>>

joinVars == <<jOpps, jItems, jPerm, jOutA, jOutB>>

flowVars ==
    <<apiUrl, exportedFrames, flowSummary, textRun, visionRun, textReply, visionReply,
      textResult, visionResult, fetched>>

emailVars ==
    <<currentOpportunity, subjectInput, bodyInput, copyCalls, generation, fonts,
      notifications, creating>>

restVars == <<joinVars, flowVars, emailVars>>

vars ==
    <<hPage, hMode, hOut, hPrev, aFrames, aOutcome, aResponse,
      vFrames, vCalls, vInFlight, vAnalyses, vResponse,
      page, initialScan, uiToPlugin, pluginToUi, opportunities, aiAnalysis, view,
      analyses, pass, jOpps, jItems, jPerm, jOutA, jOutB,
      apiUrl, exportedFrames, flowSummary, textRun, visionRun, textReply, visionReply,
      textResult, visionResult, fetched,
      currentOpportunity, subjectInput, bodyInput, copyCalls, generation, fonts,
      notifications, creating>>

Undefined == "undefined"

(***************************************************************************)
(* Character-level strings.                                                *)
(***************************************************************************)
UpperCase ==
    {"A", "B", "C", "D", "E", "F", "G", "H", "I", "J", "K", "L", "M",
     "N", "O", "P", "Q", "R", "S", "T", "U", "V", "W", "X", "Y", "Z"}

LowerOf ==
    [c \in UpperCase |->
        CASE c = "A" -> "a" [] c = "B" -> "b" [] c = "C" -> "c" [] c = "D" -> "d"
          [] c = "E" -> "e" [] c = "F" -> "f" [] c = "G" -> "g" [] c = "H" -> "h"
          [] c = "I" -> "i" [] c = "J" -> "j" [] c = "K" -> "k" [] c = "L" -> "l"
          [] c = "M" -> "m" [] c = "N" -> "n" [] c = "O" -> "o" [] c = "P" -> "p"
          [] c = "Q" -> "q" [] c = "R" -> "r" [] c = "S" -> "s" [] c = "T" -> "t"
          [] c = "U" -> "u" [] c = "V" -> "v" [] c = "W" -> "w" [] c = "X" -> "x"
          [] c = "Y" -> "y" [] c = "Z" -> "z"]

\* s.charAt(i - 1)
CharAt(s, i) == SubSeq(s, i, i)

\* String.prototype.toLowerCase
RECURSIVE toLowerCase(_)
toLowerCase(s) ==
    IF Len(s) = 0 THEN ""
    ELSE (IF CharAt(s, 1) \in UpperCase THEN LowerOf[CharAt(s, 1)] ELSE CharAt(s, 1))
             \o toLowerCase(SubSeq(s, 2, Len(s)))

\* String.prototype.includes: p occurs in s as a contiguous substring
includes(s, p) ==
    \E i \in 0..(Len(s) - Len(p)) : SubSeq(s, i + 1, i + Len(p)) = p

\* Array.prototype.some over a pattern list
MatchesAny(name, patterns) ==
    \E k \in 1..Len(patterns) : includes(name, patterns[k])

(***************************************************************************)
(* Keyword groups of the heuristic classifier (src/code.ts 581-609).       *)
(***************************************************************************)
SignupPatterns ==
    << "signup",
       "sign up",
       "register",
       "registration",
       "create account",
       "new account",
       "join",
       "get started" >>

CheckoutPatterns ==
    << "checkout",
       "place order",
       "buy",
       "purchase",
       "payment",
       "cart",
       "order",
       "confirm order" >>

PasswordResetPatterns ==
    << "forgot password",
       "reset password",
       "password reset",
       "forgot" >>

EmailVerificationPatterns ==
    << "verify email",
       "email verification",
       "confirm email",
       "verify account" >>

isSignupFlow(name) == MatchesAny(name, SignupPatterns)

isCheckoutFlow(name) == MatchesAny(name, CheckoutPatterns)

isPasswordResetFlow(name) == MatchesAny(name, PasswordResetPatterns)

isEmailVerificationFlow(name) == MatchesAny(name, EmailVerificationPatterns)

(***************************************************************************)
(* Button labels of a frame (src/code.ts 649-683).  A node carries its     *)
(* children as a flat list of records [type, name, characters]:            *)
(* `characters` is the text of a TEXT child, or the text of the first TEXT *)
(* descendant of a COMPONENT/INSTANCE child ("" when it has none).         *)
(***************************************************************************)
ButtonWord == "button"

CtaWord == "cta"

BtnWord == "btn"

ShortTextLimit == 30

RECURSIVE findButtons(_)
findButtons(children) ==
    IF children = <<>> THEN <<>>
    ELSE
        LET c == Head(children)
            lname == toLowerCase(c.name)
            fromComponent ==
                IF /\ c.type \in {"COMPONENT", "INSTANCE"}
                   /\ (includes(lname, ButtonWord) \/ includes(lname, CtaWord)
                         \/ includes(lname, BtnWord))
                   /\ c.characters # ""
                THEN <<c.characters>> ELSE <<>>
            \* the walk then reaches the text node itself (directly, or as
            \* the component's descendant)
            fromText ==
                IF /\ c.type \in {"TEXT", "COMPONENT", "INSTANCE"}
                   /\ c.characters # ""
                   /\ Len(c.characters) < ShortTextLimit
                THEN <<toLowerCase(c.characters)>> ELSE <<>>
        IN  fromComponent \o fromText \o findButtons(Tail(children))

findButtonsInFrame(node) == findButtons(node.children)

SubmitWord == "submit"

ConfirmWord == "confirm"

SendWord == "send"

IsActionLabel(button) ==
    LET buttonText == toLowerCase(button)
    IN  \/ includes(buttonText, SubmitWord)
        \/ includes(buttonText, ConfirmWord)
        \/ includes(buttonText, SendWord)

(***************************************************************************)
(* analyzeNode (src/code.ts 483-578).  null is the record NullOpportunity. *)
(***************************************************************************)
NullOpportunity == [id |-> "null"]

\* ids numbered by the length of the list built by the previous call
OppId_Serial(id) == <<"opp_", SubSeq("0123456789", Len(hOut) + 1, Len(hOut) + 1)>>

OppId(id) == <<"opp_", id>>

Opportunity(node, type, confidence, productType, userAction, detectedVariables) ==
    [ id         |-> OppId(node.id),
      type       |-> type,
      frameName  |-> node.name,
      frameId    |-> node.id,
      confidence |-> confidence,
      context    |-> [ productType       |-> productType,
                       userAction        |-> userAction,
                       detectedVariables |-> detectedVariables ],
      aiAnalysis |-> [k |-> "undefined"] ]

\* analyzeNode with the checkout group tested before the signup group
analyzeNode_CheckoutFirst(node, name) ==
    IF isCheckoutFlow(name) THEN
        Opportunity(node, "order_confirmation", 95, "e-commerce", "placed_order",
                    <<"order_number", "customer_name", "total", "items", "shipping_address">>)
    ELSE IF isSignupFlow(name) THEN
        Opportunity(node, "welcome_email", 90, Undefined, "signed_up",
                    <<"user_name", "email", "verify_link">>)
    ELSE IF isPasswordResetFlow(name) THEN
        Opportunity(node, "password_reset", 92, Undefined, "requested_password_reset",
                    <<"user_name", "reset_link", "expiry_time">>)
    ELSE IF isEmailVerificationFlow(name) THEN
        Opportunity(node, "email_verification", 88, Undefined, "needs_email_verification",
                    <<"user_name", "verification_link", "verification_code">>)
    ELSE NullOpportunity

\* analyzeNode with the password-reset confidence copied from the signup branch
analyzeNode_ResetConfidence(node, name) ==
    IF isSignupFlow(name) THEN
        Opportunity(node, "welcome_email", 90, Undefined, "signed_up",
                    <<"user_name", "email", "verify_link">>)
    ELSE IF isCheckoutFlow(name) THEN
        Opportunity(node, "order_confirmation", 95, "e-commerce", "placed_order",
                    <<"order_number", "customer_name", "total", "items", "shipping_address">>)
    ELSE IF isPasswordResetFlow(name) THEN
        Opportunity(node, "password_reset", 90, Undefined, "requested_password_reset",
                    <<"user_name", "reset_link", "expiry_time">>)
    ELSE IF isEmailVerificationFlow(name) THEN
        Opportunity(node, "email_verification", 88, Undefined, "needs_email_verification",
                    <<"user_name", "verification_link", "verification_code">>)
    ELSE NullOpportunity

\* analyzeNode reading the labels of every screen, components included
analyzeNode_AnyScreenLabels(node, name) ==
    IF isSignupFlow(name) THEN
        Opportunity(node, "welcome_email", 90, Undefined, "signed_up",
                    <<"user_name", "email", "verify_link">>)
    ELSE IF isCheckoutFlow(name) THEN
        Opportunity(node, "order_confirmation", 95, "e-commerce", "placed_order",
                    <<"order_number", "customer_name", "total", "items", "shipping_address">>)
    ELSE IF isPasswordResetFlow(name) THEN
        Opportunity(node, "password_reset", 92, Undefined, "requested_password_reset",
                    <<"user_name", "reset_link", "expiry_time">>)
    ELSE IF isEmailVerificationFlow(name) THEN
        Opportunity(node, "email_verification", 88, Undefined, "needs_email_verification",
                    <<"user_name", "verification_link", "verification_code">>)
    ELSE IF \E k \in 1..Len(findButtonsInFrame(node)) :
                IsActionLabel(findButtonsInFrame(node)[k])
    THEN
        Opportunity(node, "generic_transactional", 70, Undefined, "submitted_form", <<>>)
    ELSE NullOpportunity

analyzeNode(node, name) ==
    IF isSignupFlow(name) THEN
        Opportunity(node, "welcome_email", 90, Undefined, "signed_up",
                    <<"user_name", "email", "verify_link">>)
    ELSE IF isCheckoutFlow(name) THEN
        Opportunity(node, "order_confirmation", 95, "e-commerce", "placed_order",
                    <<"order_number", "customer_name", "total", "items", "shipping_address">>)
    ELSE IF isPasswordResetFlow(name) THEN
        Opportunity(node, "password_reset", 92, Undefined, "requested_password_reset",
                    <<"user_name", "reset_link", "expiry_time">>)
    ELSE IF isEmailVerificationFlow(name) THEN
        Opportunity(node, "email_verification", 88, Undefined, "needs_email_verification",
                    <<"user_name", "verification_link", "verification_code">>)
    ELSE IF /\ node.type = "FRAME"
            /\ \E k \in 1..Len(findButtonsInFrame(node)) :
                    IsActionLabel(findButtonsInFrame(node)[k])
    THEN
        Opportunity(node, "generic_transactional", 70, Undefined, "submitted_form", <<>>)
    ELSE NullOpportunity

(***************************************************************************)
(* detectEmailOpportunities (src/code.ts 438-481).                         *)
(***************************************************************************)
MinScreenSize == 200

IsScreen(node) ==
    /\ node.type \in {"FRAME", "COMPONENT"}
    /\ ~(node.width < MinScreenSize \/ node.height < MinScreenSize)

ScanAllOpportunity(node) ==
    Opportunity(node, "generic_transactional", 50, Undefined, "unknown", <<>>)

RECURSIVE detectEmailOpportunities(_, _)
detectEmailOpportunities(allNodes, scanAll) ==
    IF allNodes = <<>> THEN <<>>
    ELSE
        LET node == Head(allNodes)
            rest == detectEmailOpportunities(Tail(allNodes), scanAll)
        IN  IF ~IsScreen(node) THEN rest
            ELSE IF scanAll THEN <<ScanAllOpportunity(node)>> \o rest
            ELSE LET opportunity == analyzeNode(node, toLowerCase(node.name))
                 IN  IF opportunity # NullOpportunity
                     THEN <<opportunity>> \o rest
                     ELSE rest

(***************************************************************************)
(* JavaScript values as they appear in JSON: a value is a record with a    *)
(* kind k and, for strings, numbers, arrays and objects, a payload v.      *)
(***************************************************************************)
Str(s) == [k |-> "string", v |-> s]

Num(n) == [k |-> "number", v |-> n]

Arr(items) == [k |-> "array", v |-> items]

Obj(fields) == [k |-> "object", v |-> fields]

Undef == [k |-> "undefined"]

JNull == [k |-> "null"]

\* ToBoolean(v) = false
Falsy(v) ==
    \/ v.k \in {"undefined", "null"}
    \/ v.k = "string" /\ v.v = ""
    \/ v.k = "number" /\ v.v = 0

\* a || b
OrElse(a, b) == IF Falsy(a) THEN b ELSE a

\* item.f for a value item that is neither null nor undefined
Get(item, f) ==
    IF item.k = "object" /\ f \in DOMAIN item.v THEN item.v[f] ELSE Undef

(***************************************************************************)
(* The text of a model reply is a sequence of tokens: the punctuation      *)
(* tokens "[", "]", "," and "text" (any run of characters that is not      *)
(* JSON), and JSON atoms (null, numbers, strings, whole objects), which    *)
(* are the values above.  JsonParse is JSON.parse on such a text:          *)
(*   value ::= atom | "[" "]" | "[" value ("," value)* "]"                 *)
(***************************************************************************)
LBracket == [k |-> "["]

RBracket == [k |-> "]"]

Comma == [k |-> ","]

Prose == [k |-> "text"]

SyntaxError == [k |-> "SyntaxError"]

IsAtom(tok) == tok.k \in {"null", "number", "string", "object"}

\* ParseValue(toks, i) parses one value starting at position i; the result
\* is [ok, val, next] with next the position after the value.
RECURSIVE ParseValue(_, _)
RECURSIVE ParseItems(_, _, _)
ParseValue(toks, i) ==
    IF i > Len(toks) THEN [ok |-> FALSE]
    ELSE IF IsAtom(toks[i]) THEN [ok |-> TRUE, val |-> toks[i], next |-> i + 1]
    ELSE IF toks[i] = LBracket THEN
        IF i + 1 <= Len(toks) /\ toks[i + 1] = RBracket
        THEN [ok |-> TRUE, val |-> Arr(<<>>), next |-> i + 2]
        ELSE ParseItems(toks, i + 1, <<>>)
    ELSE [ok |-> FALSE]

\* the items of an array whose "[" has been read; acc holds the items so far
ParseItems(toks, i, acc) ==
    LET item == ParseValue(toks, i)
    IN  IF ~item.ok THEN [ok |-> FALSE]
        ELSE IF item.next > Len(toks) THEN [ok |-> FALSE]
        ELSE IF toks[item.next] = RBracket
             THEN [ok |-> TRUE, val |-> Arr(Append(acc, item.val)), next |-> item.next + 1]
        ELSE IF toks[item.next] = Comma
             THEN ParseItems(toks, item.next + 1, Append(acc, item.val))
        ELSE [ok |-> FALSE]

JsonParse(toks) ==
    LET r == ParseValue(toks, 1)
    IN  IF r.ok /\ r.next = Len(toks) + 1 THEN r.val ELSE SyntaxError

(***************************************************************************)
(* parseAnalysisResponse (api/analyze.ts 161-193).                         *)
(***************************************************************************)
NoMatch == <<>>

\* response.match(/\[[\s\S]*\]/): from the first "[" to the last "]" after it
MatchArray(response) ==
    LET opens == { i \in 1..Len(response) : response[i] = LBracket }
    IN  IF opens = {} THEN NoMatch
        ELSE
            LET first == CHOOSE i \in opens : \A j \in opens : i <= j
                closes == { i \in (first + 1)..Len(response) : response[i] = RBracket }
            IN  IF closes = {} THEN NoMatch
                ELSE LET last == CHOOSE i \in closes : \A j \in closes : i >= j
                     IN  SubSeq(response, first, last)

\* the record built for one item of the parsed array (lines 167-176)
AnalysisOfItem(item) ==
    [ frameId            |-> OrElse(Get(item, "frameId"), Str("")),
      frameName          |-> OrElse(Get(item, "frameName"), Str("")),
      detectedPurpose    |-> OrElse(Get(item, "detectedPurpose"), Str("Unknown purpose")),
      suggestedEmailType |-> OrElse(Get(item, "suggestedEmailType"), Str("generic_transactional")),
      suggestedEmailName |-> OrElse(Get(item, "suggestedEmailName"), Str("Transactional Email")),
      confidence         |-> IF Get(item, "confidence").k = "number"
                             THEN Get(item, "confidence") ELSE Num(50),
      reasoning          |-> OrElse(Get(item, "reasoning"), Str("")),
      suggestedVariables |-> IF Get(item, "suggestedVariables").k = "array"
                             THEN Get(item, "suggestedVariables") ELSE Arr(<<>>) ]

\* the fallback record of one requested frame (lines 183-192)
FallbackAnalysis(frame) ==
    [ frameId            |-> Str(frame.id),
      frameName          |-> Str(frame.name),
      detectedPurpose    |-> Str("Could not analyze"),
      suggestedEmailType |-> Str("generic_transactional"),
      suggestedEmailName |-> Str("Transactional Email"),
      confidence         |-> Num(30),
      reasoning          |-> Str("AI analysis failed, using fallback"),
      suggestedVariables |-> Arr(<<>>) ]

FallbackAnalyses(frames) ==
    [i \in 1..Len(frames) |-> FallbackAnalysis(frames[i])]

\* reading a property of null or undefined raises a TypeError
ThrowsOnRead(item) == item.k \in {"null", "undefined"}

\* parseAnalysisResponse whose catch block returns an empty list
parseAnalysisResponse_EmptyOnError(response, frames) ==
    LET jsonMatch == MatchArray(response)
        parsed == JsonParse(jsonMatch)
    IN  IF jsonMatch = NoMatch THEN FallbackAnalyses(frames)
        ELSE IF parsed = SyntaxError THEN <<>>
        ELSE IF \E i \in 1..Len(parsed.v) : ThrowsOnRead(parsed.v[i]) THEN <<>>
        ELSE [i \in 1..Len(parsed.v) |-> AnalysisOfItem(parsed.v[i])]

parseAnalysisResponse(response, frames) ==
    LET jsonMatch == MatchArray(response)
        parsed == JsonParse(jsonMatch)
    IN  IF jsonMatch = NoMatch THEN FallbackAnalyses(frames)
        ELSE IF parsed = SyntaxError THEN FallbackAnalyses(frames)
        ELSE IF \E i \in 1..Len(parsed.v) : ThrowsOnRead(parsed.v[i])
             THEN FallbackAnalyses(frames)
        ELSE [i \in 1..Len(parsed.v) |-> AnalysisOfItem(parsed.v[i])]

(***************************************************************************)
(* handler of the text endpoint (api/analyze.ts 53-99) as a function of    *)
(* the request frames and of what the model call did:                      *)
(*   [kind |-> "throw"]              anthropic.messages.create rejected    *)
(*   [kind |-> "nontext"]            content[0] is not a text block        *)
(*   [kind |-> "text", text |-> t]   content[0].text = t                   *)
(***************************************************************************)
HttpOk == 200

HttpBadRequest == 400

HttpServerError == 500

EmptyText == <<>>

AnalyzeHandler(frames, outcome) ==
    IF Len(frames) = 0 THEN
        [status |-> HttpBadRequest, error |-> "No frames provided"]
    ELSE IF outcome.kind = "throw" THEN
        [status |-> HttpServerError, error |-> "Failed to analyze frames"]
    ELSE
        LET responseText == IF outcome.kind = "text" THEN outcome.text ELSE EmptyText
        IN  [status |-> HttpOk, analysis |-> parseAnalysisResponse(responseText, frames)]

(***************************************************************************)
(* analyzeFrameWithVision (api/vision.ts 279-360).  The text of a vision   *)
(* reply is a sequence of the tokens "{", "}", "text" (here one character  *)
(* that is not a brace) and "body" (the members of one object, written     *)
(* without braces); the length of a text is its number of tokens.          *)
(***************************************************************************)
LBrace == [k |-> "{"]

RBrace == [k |-> "}"]

Body(fields) == [k |-> "body", v |-> fields]

NoMembers == <<>>

\* a string whose characters are a reply text
RawStr(text) == [k |-> "string", raw |-> text]

\* JSON.parse of a text that starts with "{" and ends with "}"
JsonParseObject(toks) ==
    IF toks = <<LBrace, RBrace>> THEN Obj(NoMembers)
    ELSE IF Len(toks) = 3 /\ toks[1] = LBrace /\ toks[2].k = "body" /\ toks[3] = RBrace
         THEN Obj(toks[2].v)
    ELSE SyntaxError

\* responseText.match(/\{[\s\S]*\}/): from the first "{" to the last "}" after it
MatchObject(responseText) ==
    LET opens == { i \in 1..Len(responseText) : responseText[i] = LBrace }
    IN  IF opens = {} THEN NoMatch
        ELSE
            LET first == CHOOSE i \in opens : \A j \in opens : i <= j
                closes == { i \in (first + 1)..Len(responseText) : responseText[i] = RBrace }
            IN  IF closes = {} THEN NoMatch
                ELSE LET last == CHOOSE i \in closes : \A j \in closes : i >= j
                     IN  SubSeq(responseText, first, last)

SummaryLimit == 200

\* responseText.slice(0, 200)
SliceSummary(responseText) ==
    SubSeq(responseText, 1, IF Len(responseText) < SummaryLimit
                            THEN Len(responseText) ELSE SummaryLimit)

\* lines 332-342
VisionOfParsed(frame, parsed) ==
    [ frameId            |-> Str(frame.frameId),
      frameName          |-> Str(frame.frameName),
      designSummary      |-> OrElse(Get(parsed, "designSummary"), Str("No summary available")),
      userFlowPurpose    |-> OrElse(Get(parsed, "userFlowPurpose"), Str("Unknown purpose")),
      keyElements        |-> IF Get(parsed, "keyElements").k = "array"
                             THEN Get(parsed, "keyElements") ELSE Arr(<<>>),
      suggestedEmailType |-> OrElse(Get(parsed, "suggestedEmailType"), Str("generic_transactional")),
      suggestedEmailName |-> OrElse(Get(parsed, "suggestedEmailName"), Str("Transactional Email")),
      emailContext       |-> OrElse(Get(parsed, "emailContext"), Str("")),
      confidence         |-> IF Get(parsed, "confidence").k = "number"
                             THEN Get(parsed, "confidence") ELSE Num(70) ]

\* the parse fallback written as a copy of the handler's catch block
VisionParseFallback_AsCallFallback(frame, responseText) ==
    [ frameId            |-> Str(frame.frameId),
      frameName          |-> Str(frame.frameName),
      designSummary      |-> Str("Analysis failed"),
      userFlowPurpose    |-> Str("Unknown"),
      keyElements        |-> Arr(<<>>),
      suggestedEmailType |-> Str("generic_transactional"),
      suggestedEmailName |-> Str("Transactional Email"),
      emailContext       |-> Str(""),
      confidence         |-> Num(30) ]

\* lines 348-359: the reply could not be parsed
VisionParseFallback(frame, responseText) ==
    [ frameId            |-> Str(frame.frameId),
      frameName          |-> Str(frame.frameName),
      designSummary      |-> IF SliceSummary(responseText) = <<>>
                             THEN Str("Could not analyze")
                             ELSE RawStr(SliceSummary(responseText)),
      userFlowPurpose    |-> Str("Unknown"),
      keyElements        |-> Arr(<<>>),
      suggestedEmailType |-> Str("generic_transactional"),
      suggestedEmailName |-> Str("Transactional Email"),
      emailContext       |-> Str(""),
      confidence         |-> Num(50) ]

\* the value analyzeFrameWithVision resolves with when the model call
\* resolved (outcome.kind is "text" or "nontext")
analyzeFrameWithVision(frame, outcome) ==
    LET responseText == IF outcome.kind = "text" THEN outcome.text ELSE EmptyText
        jsonMatch == MatchObject(responseText)
        parsed == JsonParseObject(jsonMatch)
    IN  IF jsonMatch = NoMatch THEN VisionParseFallback(frame, responseText)
        ELSE IF parsed = SyntaxError THEN VisionParseFallback(frame, responseText)
        ELSE VisionOfParsed(frame, parsed)

(***************************************************************************)
(* handler of the vision endpoint (api/vision.ts 239-265).                 *)
(***************************************************************************)
\* lines 248-258: the call for this frame threw
VisionCallFallback(frame) ==
    [ frameId            |-> Str(frame.frameId),
      frameName          |-> Str(frame.frameName),
      designSummary      |-> Str("Analysis failed"),
      userFlowPurpose    |-> Str("Unknown"),
      keyElements        |-> Arr(<<>>),
      suggestedEmailType |-> Str("generic_transactional"),
      suggestedEmailName |-> Str("Transactional Email"),
      emailContext       |-> Str(""),
      confidence         |-> Num(30) ]

\* the loop body without its own catch: a failed call is given the parse
\* fallback of analyzeFrameWithVision
VisionIteration_SharedFallback(frame, outcome) ==
    IF outcome.kind = "throw" THEN VisionParseFallback(frame, EmptyText)
    ELSE analyzeFrameWithVision(frame, outcome)

\* one iteration of the loop body, once the awaited call has settled
VisionIteration(frame, outcome) ==
    IF outcome.kind = "throw" THEN VisionCallFallback(frame)
    ELSE analyzeFrameWithVision(frame, outcome)

(***************************************************************************)
(* The heuristic pass on its own: a page is drawn, then detection runs in  *)
(* either mode, any number of times.                                       *)
(***************************************************************************)
MaxWords == 3

Words ==
    { "Sign", "Up", "Checkout",
      "Reset", "Password",
      "verify", "email",
      "join", "Home" }

RECURSIVE NamesOfLength(_)
NamesOfLength(n) ==
    IF n = 1 THEN Words
    ELSE { w \o " " \o rest : w \in Words, rest \in NamesOfLength(n - 1) }

Names == UNION { NamesOfLength(n) : n \in 1..MaxWords }

NoChildren == <<>>

SubmitText ==
    << [type |-> "TEXT", name |-> "Label",
        characters |-> "Submit"] >>

CancelText ==
    << [type |-> "TEXT", name |-> "Label",
        characters |-> "Cancel"] >>

SendButton ==
    << [type |-> "INSTANCE", name |-> "CTA",
        characters |-> "Send code"] >>

ChildLists == {NoChildren, SubmitText, CancelText, SendButton}

\* a paragraph of 30 characters or more that mentions an action verb
LongSubmitText ==
    << [type |-> "TEXT", name |-> "Hint",
        characters |-> "Please submit the form when done"] >>

\* a button component whose text has 30 characters or more
LongSendButton ==
    << [type |-> "COMPONENT", name |-> "Primary Button",
        characters |-> "SEND ME THE CONFIRMATION MESSAGE"] >>

\* a component that is not named like a button, with a short text
ConfirmLink ==
    << [type |-> "INSTANCE", name |-> "Link",
        characters |-> "Confirm"] >>

\* a button component without an action verb
CancelButton ==
    << [type |-> "INSTANCE", name |-> "btn/secondary",
        characters |-> "Go back to the previous screen now"] >>

LabelLists ==
    ChildLists \cup
    { LongSubmitText, LongSendButton, ConfirmLink, CancelButton,
      CancelText \o ConfirmLink, CancelButton \o LongSubmitText }

NameSignUp == "Sign Up"

NameCheckout == "Checkout"

NameResetPassword == "Reset Password"

Screen(id, name) ==
    [id |-> id, name |-> name, type |-> "FRAME", width |-> 400, height |-> 800,
     children |-> NoChildren]

ScenarioAPage ==
    << Screen("1:1", NameSignUp), Screen("1:2", NameCheckout),
       Screen("1:3", NameResetPassword) >>

HeurNodes ==
    { [id |-> "1:1", name |-> n, type |-> "FRAME", width |-> 400, height |-> 800,
       children |-> c] : n \in Names, c \in ChildLists }
    \cup
    { [id |-> "1:1", name |-> NameCheckout, type |-> t, width |-> w, height |-> 800,
       children |-> SubmitText] : t \in {"COMPONENT", "GROUP"}, w \in {100, 400} }
    \cup
    { [id |-> "1:1", name |-> "Home", type |-> "COMPONENT", width |-> 400,
       height |-> h, children |-> SubmitText] : h \in {100, 800} }
    \cup
    { [id |-> "1:1", name |-> n, type |-> t, width |-> 400, height |-> 800,
       children |-> c] : n \in Words, t \in {"FRAME", "COMPONENT"}, c \in LabelLists }

HeurPages == { <<n>> : n \in HeurNodes } \cup {ScenarioAPage}

NoCall == [mode |-> "idle", out |-> <<>>]

HeurIdle ==
    /\ hPage = <<>>
    /\ hMode = "idle"
    /\ hOut = <<>>
    /\ hPrev = NoCall

AnalyzeIdle ==
    /\ aFrames = <<>>
    /\ aOutcome = [kind |-> "none"]
    /\ aResponse = [status |-> 0]

VisionIdle ==
    /\ vFrames = <<>>
    /\ vCalls = <<>>
    /\ vInFlight = {}
    /\ vAnalyses = <<>>
    /\ vResponse = [status |-> 0]

PanelIdle ==
    /\ page = <<>>
    /\ initialScan = FALSE
    /\ uiToPlugin = <<>>
    /\ pluginToUi = <<>>
    /\ opportunities = <<>>
    /\ aiAnalysis = <<>>
    /\ view = "initial"
    /\ analyses = <<>>
    /\ pass = 0

NotApplied == <<[id |-> "none"]>>

JoinIdle ==
    /\ jOpps = <<>>
    /\ jItems = <<>>
    /\ jPerm = <<>>
    /\ jOutA = NotApplied
    /\ jOutB = NotApplied

FlowIdle ==
    /\ apiUrl = ""
    /\ exportedFrames = <<>>
    /\ flowSummary = [k |-> "null"]
    /\ textRun = "idle"
    /\ visionRun = "idle"
    /\ textReply = "none"
    /\ visionReply = "none"
    /\ textResult = <<>>
    /\ visionResult = <<>>
    /\ fetched = {}

EmailIdle ==
    /\ currentOpportunity = [id |-> "null"]
    /\ subjectInput = ""
    /\ bodyInput = ""
    /\ copyCalls = <<>>
    /\ generation = 0
    /\ fonts = {}
    /\ notifications = <<>>
    /\ creating = <<>>

RestIdle == JoinIdle /\ FlowIdle /\ EmailIdle

HeurInit ==
    /\ hPage \in HeurPages
    /\ hMode = "idle"
    /\ hOut = <<>>
    /\ hPrev = NoCall
    /\ AnalyzeIdle
    /\ VisionIdle
    /\ PanelIdle
    /\ RestIdle

\* figma.ui.onmessage, 'detect-opportunities' without scanAll (src/code.ts 850-852)
DetectPatterns ==
    /\ hMode' = "patterns"
    /\ hOut' = detectEmailOpportunities(hPage, FALSE)
    /\ hPrev' = [mode |-> hMode, out |-> hOut]
    /\ UNCHANGED <<hPage, analyzeVars, visionVars, panelVars, restVars>>

\* figma.ui.onmessage, 'detect-opportunities' with scanAll (src/code.ts 850-852)
DetectScanAll ==
    /\ hMode' = "scanAll"
    /\ hOut' = detectEmailOpportunities(hPage, TRUE)
    /\ hPrev' = [mode |-> hMode, out |-> hOut]
    /\ UNCHANGED <<hPage, analyzeVars, visionVars, panelVars, restVars>>

HeurNext == DetectPatterns \/ DetectScanAll

SpecHeur == HeurInit /\ [][HeurNext]_vars

(***************************************************************************)
(* Statements about the heuristic classifier.                              *)
(***************************************************************************)
GroupPatterns ==
    <<SignupPatterns, CheckoutPatterns, PasswordResetPatterns, EmailVerificationPatterns>>

GroupCategory ==
    <<"welcome_email", "order_confirmation", "password_reset", "email_verification">>

GroupConfidence == <<90, 95, 92, 88>>

MatchingGroups(node) ==
    LET lname == toLowerCase(node.name)
    IN  { g \in 1..4 : MatchesAny(lname, GroupPatterns[g]) }

EarliestGroup(node) ==
    LET matching == MatchingGroups(node)
    IN  CHOOSE g \in matching : \A h \in matching : g <= h

OpportunitiesOf(list, frameId) ==
    { k \in 1..Len(list) : list[k].frameId = frameId }

\* C9: in pattern mode every screen whose name matches at least one keyword
\* group yields exactly one opportunity, and its category is the category of
\* the earliest matching group in the order signup, checkout, password
\* reset, email verification.
C9_FirstGroupWins ==
    hMode = "patterns" =>
        \A i \in 1..Len(hPage) :
            (IsScreen(hPage[i]) /\ MatchingGroups(hPage[i]) # {}) =>
                /\ Cardinality(OpportunitiesOf(hOut, hPage[i].id)) = 1
                /\ \A k \in OpportunitiesOf(hOut, hPage[i].id) :
                       hOut[k].type = GroupCategory[EarliestGroup(hPage[i])]

\* a name matching both a checkout and a verification keyword has been
\* classified, as order_confirmation
C9_Witness ==
    /\ hMode = "patterns"
    /\ Len(hPage) = 1
    /\ {2, 4} \subseteq MatchingGroups(hPage[1])
    /\ 1 \notin MatchingGroups(hPage[1])
    /\ Len(hOut) = 1
    /\ hOut[1].type = "order_confirmation"

\* C10: the heuristic result is fixed by the winning group (category and
\* confidence 0.9 / 0.95 / 0.92 / 0.88), and the pattern pass over the
\* screens 'Sign Up', 'Checkout', 'Reset Password' yields welcome_email,
\* order_confirmation, password_reset with confidences 0.9, 0.95, 0.92.
C10_FixedResultPerGroup ==
    hMode = "patterns" =>
        /\ \A i \in 1..Len(hPage) :
              (IsScreen(hPage[i]) /\ MatchingGroups(hPage[i]) # {}) =>
                  \E k \in 1..Len(hOut) :
                      /\ hOut[k].frameId = hPage[i].id
                      /\ hOut[k].frameName = hPage[i].name
                      /\ hOut[k].type = GroupCategory[EarliestGroup(hPage[i])]
                      /\ hOut[k].confidence = GroupConfidence[EarliestGroup(hPage[i])]
        /\ hPage = ScenarioAPage =>
              /\ Len(hOut) = 3
              /\ [k \in 1..3 |-> hOut[k].type]
                     = <<"welcome_email", "order_confirmation", "password_reset">>
              /\ [k \in 1..3 |-> hOut[k].confidence] = <<90, 95, 92>>
              /\ [k \in 1..3 |-> hOut[k].frameId] = <<"1:1", "1:2", "1:3">>

C10_Witness ==
    /\ hMode = "patterns"
    /\ hPage = ScenarioAPage
    /\ Len(hOut) = 3
    /\ hOut[3].confidence = 92

\* the child carries a label the classifier reads: a text shorter than 30
\* characters, or the text of a component named like a button
IsLabel(c) ==
    /\ c.characters # ""
    /\ \/ Len(c.characters) < ShortTextLimit
       \/ /\ c.type \in {"COMPONENT", "INSTANCE"}
          /\ \E w \in {ButtonWord, CtaWord, BtnWord} : includes(toLowerCase(c.name), w)

HasActionLabel(node) ==
    \E k \in 1..Len(node.children) :
        /\ IsLabel(node.children[k])
        /\ \E w \in {SubmitWord, ConfirmWord, SendWord} :
               includes(toLowerCase(node.children[k].characters), w)

\* the pattern pass gave this screen exactly one opportunity, the generic one
GotGeneric(node) ==
    /\ Cardinality(OpportunitiesOf(hOut, node.id)) = 1
    /\ \A k \in OpportunitiesOf(hOut, node.id) :
           /\ hOut[k].type = "generic_transactional"
           /\ hOut[k].confidence = 70

\* C11 as stated: every screen whose name matches no keyword group gets
\* generic_transactional with confidence 0.7 when one of its labels contains
\* 'submit', 'confirm' or 'send' (in any case), and no opportunity otherwise.
C11_LabelFallbackAsStated ==
    hMode = "patterns" =>
        \A i \in 1..Len(hPage) :
            (IsScreen(hPage[i]) /\ MatchingGroups(hPage[i]) = {}) =>
                IF HasActionLabel(hPage[i]) THEN GotGeneric(hPage[i])
                ELSE OpportunitiesOf(hOut, hPage[i].id) = {}

\* C11 amended: the same for every screen that is a FRAME; a screen that is
\* a COMPONENT and whose name matches no keyword group gets no opportunity,
\* whatever its labels.
C11_LabelFallback ==
    hMode = "patterns" =>
        \A i \in 1..Len(hPage) :
            (IsScreen(hPage[i]) /\ MatchingGroups(hPage[i]) = {}) =>
                IF hPage[i].type = "FRAME" /\ HasActionLabel(hPage[i])
                THEN GotGeneric(hPage[i])
                ELSE OpportunitiesOf(hOut, hPage[i].id) = {}

\* a frame named 'Home' whose only action label is a long upper-case button
\* text has been classified as generic
C11_Witness ==
    /\ hMode = "patterns"
    /\ Len(hPage) = 1
    /\ hPage[1].type = "FRAME"
    /\ hPage[1].children = LongSendButton
    /\ MatchingGroups(hPage[1]) = {}
    /\ GotGeneric(hPage[1])

\* the screens of the page, in scan order
ScreensOf(nodes) == SelectSeq(nodes, IsScreen)

MaxTokens == 4

ItemFull ==
    Obj([ frameId            |-> Str("1:1"),
          frameName          |-> Str(NameSignUp),
          detectedPurpose    |-> Str("User registration form"),
          suggestedEmailType |-> Str("order_confirmation"),
          suggestedEmailName |-> Str("Order Confirmation"),
          confidence         |-> Num(80),
          reasoning          |-> Str("Has a pay button"),
          suggestedVariables |-> Arr(<<Str("order_id")>>) ])

ItemOdd ==
    Obj([ frameId            |-> Str("1:2"),
          suggestedEmailType |-> Str("newsletter"),
          confidence         |-> Num(150) ])

ReplyTokens == {LBracket, RBracket, Comma, Prose, JNull, ItemFull, ItemOdd}

RECURSIVE TextsOfLength(_)
TextsOfLength(n) ==
    IF n = 0 THEN {<<>>}
    ELSE { <<tok>> \o rest : tok \in ReplyTokens, rest \in TextsOfLength(n - 1) }

ReplyTexts == UNION { TextsOfLength(n) : n \in 0..MaxTokens }

FrameData(id, name) == [id |-> id, name |-> name]

RequestFrameLists ==
    { << FrameData("1:1", NameSignUp) >>,
      << FrameData("1:1", NameSignUp), FrameData("1:2", NameCheckout) >>,
      << FrameData("1:2", NameCheckout), FrameData("1:1", NameSignUp) >> }

AnalyzeInit ==
    /\ aFrames \in RequestFrameLists
    /\ aOutcome = [kind |-> "none"]
    /\ aResponse = [status |-> 0]
    /\ HeurIdle
    /\ VisionIdle
    /\ PanelIdle
    /\ RestIdle

\* anthropic.messages.create resolves with a text block (lines 70-88)
ModelRepliesText ==
    /\ aOutcome.kind = "none"
    /\ \E t \in ReplyTexts :
          /\ aOutcome' = [kind |-> "text", text |-> t]
          /\ aResponse' = AnalyzeHandler(aFrames, [kind |-> "text", text |-> t])
    /\ UNCHANGED <<aFrames, heurVars, visionVars, panelVars, restVars>>

\* anthropic.messages.create resolves with a block that is not text (lines 79-81)
ModelRepliesNonText ==
    /\ aOutcome.kind = "none"
    /\ aOutcome' = [kind |-> "nontext"]
    /\ aResponse' = AnalyzeHandler(aFrames, [kind |-> "nontext"])
    /\ UNCHANGED <<aFrames, heurVars, visionVars, panelVars, restVars>>

\* anthropic.messages.create rejects (lines 90-98)
ModelThrows ==
    /\ aOutcome.kind = "none"
    /\ aOutcome' = [kind |-> "throw"]
    /\ aResponse' = AnalyzeHandler(aFrames, [kind |-> "throw"])
    /\ UNCHANGED <<aFrames, heurVars, visionVars, panelVars, restVars>>

AnalyzeNext == ModelRepliesText \/ ModelRepliesNonText \/ ModelThrows

SpecAnalyze == AnalyzeInit /\ [][AnalyzeNext]_vars

(***************************************************************************)
(* Statements about the text endpoint.                                     *)
(***************************************************************************)
\* no contiguous part of the text is a JSON array
NoParseableArray(text) ==
    \A i \in 1..Len(text) : \A j \in i..Len(text) :
        JsonParse(SubSeq(text, i, j)).k # "array"

IsStubFor(a, frame, reasoning) ==
    /\ a.frameId = Str(frame.id)
    /\ a.suggestedEmailType = Str("generic_transactional")
    /\ a.confidence = Num(30)
    /\ a.reasoning = Str(reasoning)

StubsReturned(reasoning) ==
    (aOutcome.kind = "text" /\ NoParseableArray(aOutcome.text)) =>
        /\ aResponse.status = HttpOk
        /\ Len(aResponse.analysis) = Len(aFrames)
        /\ \A i \in 1..Len(aFrames) :
               IsStubFor(aResponse.analysis[i], aFrames[i], reasoning)

\* C4 as stated: a reply without a parseable JSON array gives, without an
\* exception, one stub per requested frame in request order, each with the
\* frame's id, generic_transactional, confidence 0.3 and reasoning
\* 'analysis failed'.
C4_StubsAsStated == StubsReturned("analysis failed")

\* C4 amended: the same, with the reasoning text the code writes,
\* 'AI analysis failed, using fallback'.
C4_StubsPerFrame == StubsReturned("AI analysis failed, using fallback")

\* a bracketed but unparseable reply for two frames has produced two stubs
C4_Witness ==
    /\ aOutcome.kind = "text"
    /\ MatchArray(aOutcome.text) # NoMatch
    /\ NoParseableArray(aOutcome.text)
    /\ Len(aFrames) = 2
    /\ aResponse.status = HttpOk
    /\ Len(aResponse.analysis) = 2
    /\ aResponse.analysis[2].confidence = Num(30)

(***************************************************************************)
(* The vision endpoint on its own: one request, the loop over its frames,  *)
(* one response.                                                           *)
(***************************************************************************)
MaxVisionFrames == 3

FrameIds == <<"1:1", "1:2", "1:3", "1:4">>

FrameNames == <<NameSignUp, NameCheckout, NameResetPassword, "Home">>

FrameImage(i) == [frameId |-> FrameIds[i], frameName |-> FrameNames[i]]

VisionRequests ==
    { [i \in 1..n |-> FrameImage(i)] : n \in 0..MaxVisionFrames }

BodyFull ==
    Body([ designSummary      |-> Str("A checkout form with a pay button"),
           userFlowPurpose    |-> Str("Checkout - payment details"),
           keyElements        |-> Arr(<<Str("Pay button")>>),
           suggestedEmailType |-> Str("order_confirmation"),
           suggestedEmailName |-> Str("Order Confirmation"),
           emailContext       |-> Str("Order total"),
           confidence         |-> Num(85) ])

\* a reply of more characters than the summary keeps, none of them a brace
LongProse == [i \in 1..(SummaryLimit + 1) |-> Prose]

\* the reply texts a call may resolve with
VisionTexts ==
    { EmptyText,
      <<Prose>>,
      LongProse,
      <<LBrace, RBrace>>,
      <<LBrace, BodyFull, RBrace>>,
      <<Prose, LBrace, BodyFull, RBrace, Prose>>,
      <<LBrace, BodyFull, RBrace, LBrace, BodyFull, RBrace>>,
      <<LBrace, BodyFull>>,
      <<RBrace, LBrace>>,
      <<LBrace>> \o LongProse \o <<RBrace>> }

VisionInit ==
    /\ vFrames \in VisionRequests
    /\ vCalls = <<>>
    /\ vInFlight = {}
    /\ vAnalyses = <<>>
    /\ vResponse = [status |-> 0]
    /\ HeurIdle
    /\ AnalyzeIdle
    /\ PanelIdle
    /\ RestIdle

\* lines 228-233: a request without frames is refused
VisionRejectEmpty ==
    /\ vResponse.status = 0
    /\ Len(vFrames) = 0
    /\ vResponse' = [status |-> HttpBadRequest, error |-> "No frames provided"]
    /\ UNCHANGED <<vFrames, vCalls, vInFlight, vAnalyses, heurVars, analyzeVars, panelVars, restVars>>

\* the calls for all the frames started together, as with Promise.all
VisionStartCall_AllAtOnce ==
    /\ vResponse.status = 0
    /\ vInFlight = {}
    /\ Len(vAnalyses) < Len(vFrames)
    /\ vInFlight' = (Len(vAnalyses) + 1)..Len(vFrames)
    /\ UNCHANGED <<vFrames, vCalls, vAnalyses, vResponse, heurVars, analyzeVars, panelVars, restVars>>

\* lines 242-244: the loop reaches the next frame and awaits its model call
VisionStartCall ==
    /\ vResponse.status = 0
    /\ vInFlight = {}
    /\ Len(vAnalyses) < Len(vFrames)
    /\ vInFlight' = {Len(vAnalyses) + 1}
    /\ UNCHANGED <<vFrames, vCalls, vAnalyses, vResponse, heurVars, analyzeVars, panelVars, restVars>>

VisionCallSettles(i, outcome) ==
    /\ vCalls' = Append(vCalls, outcome)
    /\ vAnalyses' = Append(vAnalyses, VisionIteration(vFrames[i], outcome))
    /\ vInFlight' = vInFlight \ {i}
    /\ UNCHANGED <<vFrames, vResponse, heurVars, analyzeVars, panelVars, restVars>>

\* the awaited call resolves with a text block (lines 244-245, 324-359)
VisionCallRepliesText ==
    \E i \in vInFlight : \E t \in VisionTexts :
        VisionCallSettles(i, [kind |-> "text", text |-> t])

\* the awaited call resolves with a block that is not text (lines 324-326)
VisionCallRepliesNonText ==
    \E i \in vInFlight : VisionCallSettles(i, [kind |-> "nontext"])

\* the awaited call rejects (lines 246-258)
VisionCallThrows ==
    \E i \in vInFlight : VisionCallSettles(i, [kind |-> "throw"])

\* lines 262-265: the loop is over
VisionRespond ==
    /\ vResponse.status = 0
    /\ Len(vFrames) > 0
    /\ vInFlight = {}
    /\ Len(vAnalyses) = Len(vFrames)
    /\ vResponse' = [status |-> HttpOk, analyses |-> vAnalyses]
    /\ UNCHANGED <<vFrames, vCalls, vInFlight, vAnalyses, heurVars, analyzeVars, panelVars, restVars>>

VisionNext ==
    \/ VisionRejectEmpty
    \/ VisionStartCall
    \/ VisionCallRepliesText
    \/ VisionCallRepliesNonText
    \/ VisionCallThrows
    \/ VisionRespond

SpecVision == VisionInit /\ [][VisionNext]_vars

(***************************************************************************)
(* Statements about the vision endpoint.                                   *)
(***************************************************************************)
IsFixedFallback(a) ==
    /\ a.designSummary = Str("Analysis failed")
    /\ a.suggestedEmailType = Str("generic_transactional")
    /\ a.confidence = Num(30)

\* the reply of call i is one well-formed JSON object
RepliedObject(i) ==
    /\ vCalls[i].kind = "text"
    /\ MatchObject(vCalls[i].text) # NoMatch
    /\ JsonParseObject(MatchObject(vCalls[i].text)) # SyntaxError

\* the reply of call i is a text that is no JSON object
RepliedUnparseable(i) ==
    /\ vCalls[i].kind \in {"text", "nontext"}
    /\ ~RepliedObject(i)

\* the members of the object call i replied with
RepliedMembers(i) == MatchObject(vCalls[i].text)[2].v

\* C2: the response to N frames has exactly N analyses in input order, the
\* i-th with the i-th frame's id; the analysis of a frame whose call failed
\* is the fixed fallback ('Analysis failed', generic_transactional, 0.3),
\* and the analysis of a frame whose call replied with an object carries
\* that reply's values.
C2_OneAnalysisPerFrame ==
    vResponse.status = HttpOk =>
        /\ Len(vResponse.analyses) = Len(vFrames)
        /\ \A i \in 1..Len(vFrames) :
              /\ vResponse.analyses[i].frameId = Str(vFrames[i].frameId)
              /\ vCalls[i].kind = "throw" => IsFixedFallback(vResponse.analyses[i])
              /\ (RepliedObject(i) /\ Len(MatchObject(vCalls[i].text)) = 3) =>
                    /\ ~IsFixedFallback(vResponse.analyses[i])
                    /\ vResponse.analyses[i].designSummary = RepliedMembers(i).designSummary
                    /\ vResponse.analyses[i].suggestedEmailType
                           = RepliedMembers(i).suggestedEmailType
                    /\ vResponse.analyses[i].confidence = RepliedMembers(i).confidence

\* the second of three calls failed, the first and the third replied with an
\* object, and the response has been sent
C2_Witness ==
    /\ vResponse.status = HttpOk
    /\ Len(vFrames) = 3
    /\ RepliedObject(1)
    /\ vCalls[2].kind = "throw"
    /\ RepliedObject(3)
    /\ Len(vResponse.analyses) = 3
    /\ IsFixedFallback(vResponse.analyses[2])
    /\ vResponse.analyses[1].confidence = Num(85)
    /\ vResponse.analyses[3].confidence = Num(85)

MaxPasses == 3

MaxAnalyses == 1

DetectRequest(scanAll) == [type |-> "detect-opportunities", scanAll |-> scanAll]

OpportunitiesDetected(list) == [type |-> "opportunities-detected", opportunities |-> list]

\* the detection passes requested so far
PassesRequested ==
    pass + Len(pluginToUi) + Len(uiToPlugin) + (IF initialScan THEN 1 ELSE 0)

RemoveAt(seq, i) == SubSeq(seq, 1, i - 1) \o SubSeq(seq, i + 1, Len(seq))

EmptyMap == <<>>

\* Map.prototype.set
MapSet(m, key, value) ==
    [x \in DOMAIN m \cup {key} |-> IF x = key THEN value ELSE m[x]]

\* a string or number received in a JSON body, as the plain value the panel stores
FromWire(v) == v.v

\* ui.ts 362-368: the request body built from the current opportunities
FramesData(opps) ==
    [i \in 1..Len(opps) |-> [name |-> opps[i].frameName, id |-> opps[i].frameId]]

\* a record whose frameId is on no opportunity goes to the first opportunity
ApplyItem_AnyFrame(opps, item) ==
    LET hits == { k \in 1..Len(opps) :
                    item.frameId.k = "string" /\ opps[k].frameId = item.frameId.v }
        k == IF hits = {} THEN 1 ELSE CHOOSE h \in hits : \A g \in hits : h <= g
    IN  [opps EXCEPT ![k] = [@ EXCEPT !.aiAnalysis = item,
                                      !.type = FromWire(item.suggestedEmailType),
                                      !.confidence = FromWire(item.confidence)]]

\* ui.ts 392-397: one record of data.analysis applied to the list
ApplyItem(opps, item) ==
    LET hits == { k \in 1..Len(opps) :
                    item.frameId.k = "string" /\ opps[k].frameId = item.frameId.v }
    IN  IF hits = {} THEN opps
        ELSE LET k == CHOOSE h \in hits : \A g \in hits : h <= g
             IN  [opps EXCEPT ![k] = [@ EXCEPT !.aiAnalysis = item,
                                               !.type = FromWire(item.suggestedEmailType),
                                               !.confidence = FromWire(item.confidence)]]

\* the loop over data.analysis giving the n-th record to the n-th opportunity
ApplyAnalysis_ByPosition(opps, items) ==
    [k \in 1..Len(opps) |->
        IF k <= Len(items)
        THEN [opps[k] EXCEPT !.aiAnalysis = items[k],
                             !.type = FromWire(items[k].suggestedEmailType),
                             !.confidence = FromWire(items[k].confidence)]
        ELSE opps[k]]

\* ui.ts 388-398: the loop over data.analysis
RECURSIVE ApplyAnalysis(_, _)
ApplyAnalysis(opps, items) ==
    IF items = <<>> THEN opps
    ELSE ApplyAnalysis(ApplyItem(opps, Head(items)), Tail(items))

\* ui.ts 387-389: the map after the loop
RECURSIVE StoreAnalysis(_, _)
StoreAnalysis(m, items) ==
    IF items = <<>> THEN m
    ELSE StoreAnalysis(MapSet(m, Head(items).frameId, Head(items)), Tail(items))

(***************************************************************************)
(* What the model can reply to a text-analysis request, and the pages the  *)
(* document can hold.                                                      *)
(***************************************************************************)
ReplyKinds == {"valid", "overconfident", "negative", "unknownType"}

ReplyType(kind) ==
    CASE kind = "valid" -> "order_confirmation"
      [] kind = "overconfident" -> "welcome_email"
      [] kind = "negative" -> "password_reset"
      [] kind = "unknownType" -> "newsletter"

ReplyConfidence(kind) ==
    CASE kind = "valid" -> 80
      [] kind = "overconfident" -> 150
      [] kind = "negative" -> 0 - 20
      [] kind = "unknownType" -> 60

ReplyItem(frame, kind) ==
    Obj([ frameId            |-> Str(frame.id),
          frameName          |-> Str(frame.name),
          detectedPurpose    |-> Str("Screen purpose"),
          suggestedEmailType |-> Str(ReplyType(kind)),
          suggestedEmailName |-> Str("Suggested Email"),
          confidence         |-> Num(ReplyConfidence(kind)),
          reasoning          |-> Str("Because of its content"),
          suggestedVariables |-> Arr(<<Str("user_name")>>) ])

\* the text of a JSON array with the given items
RECURSIVE ItemsText(_)
ItemsText(items) ==
    IF Len(items) = 1 THEN <<Head(items)>>
    ELSE <<Head(items), Comma>> \o ItemsText(Tail(items))

ArrayText(items) ==
    IF items = <<>> THEN <<LBracket, RBracket>>
    ELSE <<LBracket>> \o ItemsText(items) \o <<RBracket>>

GarbageText == <<Prose>>

PanelReplyTexts(frames) ==
    {GarbageText}
    \cup { ArrayText([i \in 1..Len(frames) |-> ReplyItem(frames[i], kind)]) :
              kind \in ReplyKinds }
    \cup { ArrayText(<<ReplyItem(frames[Len(frames)], "valid")>>) :
              n \in {Len(frames)} \ {0} }

PageHome ==
    << Screen("1:1", "Home"), Screen("1:2", "Verify Email") >>

Pages == {ScenarioAPage, PageHome}

Init ==
    /\ page \in Pages
    /\ initialScan = TRUE
    /\ uiToPlugin = <<DetectRequest(FALSE)>>
    /\ pluginToUi = <<>>
    /\ opportunities = <<>>
    /\ aiAnalysis = EmptyMap
    /\ view = "initial"
    /\ analyses = <<>>
    /\ pass = 0
    /\ HeurIdle
    /\ AnalyzeIdle
    /\ VisionIdle
    /\ RestIdle

Others == <<heurVars, analyzeVars, visionVars, restVars>>

\* the designer edits the document
EditPage ==
    /\ \E p \in Pages \ {page} : page' = p
    /\ UNCHANGED <<initialScan, uiToPlugin, pluginToUi, opportunities, aiAnalysis, view,
                   analyses, pass, Others>>

\* code.ts 890-899: the start-up timer fires
PluginInitialScan ==
    /\ initialScan
    /\ initialScan' = FALSE
    /\ pluginToUi' = Append(pluginToUi,
                            OpportunitiesDetected(detectEmailOpportunities(page, FALSE)))
    /\ UNCHANGED <<page, uiToPlugin, opportunities, aiAnalysis, view, analyses, pass, Others>>

\* code.ts 849-862: figma.ui.onmessage handles 'detect-opportunities'
PluginDetect ==
    /\ uiToPlugin # <<>>
    /\ Head(uiToPlugin).type = "detect-opportunities"
    /\ uiToPlugin' = Tail(uiToPlugin)
    /\ pluginToUi' = Append(pluginToUi,
           OpportunitiesDetected(detectEmailOpportunities(page, Head(uiToPlugin).scanAll)))
    /\ UNCHANGED <<page, initialScan, opportunities, aiAnalysis, view, analyses, pass, Others>>

\* the handler keeping, for a frame that is still listed, the entry the
\* panel held before
OnOpportunitiesDetected_KeepsKnown ==
    /\ pluginToUi # <<>>
    /\ Head(pluginToUi).type = "opportunities-detected"
    /\ pluginToUi' = Tail(pluginToUi)
    /\ opportunities' =
           [k \in 1..Len(Head(pluginToUi).opportunities) |->
               LET known == { n \in 1..Len(opportunities) :
                                opportunities[n].frameId
                                    = Head(pluginToUi).opportunities[k].frameId }
               IN  IF known = {} THEN Head(pluginToUi).opportunities[k]
                   ELSE opportunities[CHOOSE n \in known : TRUE]]
    /\ view' = "list"
    /\ pass' = pass + 1
    /\ UNCHANGED <<page, initialScan, uiToPlugin, aiAnalysis, analyses, Others>>

\* ui.ts 12-26: window.onmessage handles 'opportunities-detected'
OnOpportunitiesDetected ==
    /\ pluginToUi # <<>>
    /\ Head(pluginToUi).type = "opportunities-detected"
    /\ pluginToUi' = Tail(pluginToUi)
    /\ opportunities' = Head(pluginToUi).opportunities
    /\ view' = "list"
    /\ pass' = pass + 1
    /\ UNCHANGED <<page, initialScan, uiToPlugin, aiAnalysis, analyses, Others>>

\* ui.ts 1002-1025: click on the refresh button
refreshOpportunities ==
    /\ PassesRequested < MaxPasses
    /\ uiToPlugin' = Append(uiToPlugin, DetectRequest(FALSE))
    /\ view' = "scanning"
    /\ UNCHANGED <<page, initialScan, pluginToUi, opportunities, aiAnalysis, analyses, pass,
                   Others>>

\* ui.ts 316-337: click on the AI button, up to the 500 ms wait
AnalyzeClick ==
    /\ PassesRequested < MaxPasses
    /\ Len(analyses) < MaxAnalyses
    /\ view' = "scanning"
    /\ uiToPlugin' = Append(uiToPlugin, DetectRequest(TRUE))
    /\ analyses' = Append(analyses, [pc |-> "wait", before |-> opportunities,
                                     due |-> PassesRequested + 1])
    /\ UNCHANGED <<page, initialScan, pluginToUi, opportunities, aiAnalysis, pass, Others>>

\* ui.ts 339-376: the wait is over; the request is built from the current
\* list and sent
AnalyzeSend ==
    \E i \in 1..Len(analyses) :
        /\ analyses[i].pc = "wait"
        /\ view' = "analyzing"
        /\ analyses' = [analyses EXCEPT ![i] =
                           [pc |-> "fetch", frames |-> FramesData(opportunities),
                            pass |-> pass, before |-> analyses[i].before,
                            due |-> analyses[i].due]]
        /\ UNCHANGED <<page, initialScan, uiToPlugin, pluginToUi, opportunities, aiAnalysis,
                       pass, Others>>

ErrorViews == {"API error: 400", "API error: 500", "Failed to fetch"}

ApiError(status) ==
    IF status = HttpBadRequest THEN "API error: 400" ELSE "API error: 500"

\* ui.ts 378-380, 404-415: the invocation ends in the catch block, which
\* shows 'AI Analysis Failed' with the error's message
ShowError(i, message) ==
    /\ view' = message
    /\ analyses' = RemoveAt(analyses, i)
    /\ UNCHANGED <<page, initialScan, uiToPlugin, pluginToUi, opportunities, aiAnalysis,
                   pass, Others>>

\* ui.ts 382-402: a 200 response is applied and the list rendered
ShowAnalysis(i, response) ==
    /\ aiAnalysis' = StoreAnalysis(EmptyMap, response.analysis)
    /\ opportunities' = ApplyAnalysis(opportunities, response.analysis)
    /\ view' = "list"
    /\ analyses' = RemoveAt(analyses, i)
    /\ UNCHANGED <<page, initialScan, uiToPlugin, pluginToUi, pass, Others>>

\* fetch resolves with the response the endpoint built for this outcome of
\* its model call
FetchSettles(i, outcome) ==
    /\ analyses[i].pc = "fetch"
    /\ LET response == AnalyzeHandler(analyses[i].frames, outcome)
       IN  IF response.status = HttpOk
           THEN ShowAnalysis(i, response)
           ELSE ShowError(i, ApiError(response.status))

\* the endpoint's model call resolved
FetchResolves ==
    \E i \in 1..Len(analyses) :
        /\ analyses[i].pc = "fetch"
        /\ \E t \in PanelReplyTexts(analyses[i].frames) :
               FetchSettles(i, [kind |-> "text", text |-> t])

\* the endpoint's model call rejected: the endpoint answers 500
FetchServerError ==
    \E i \in 1..Len(analyses) : FetchSettles(i, [kind |-> "throw"])

\* fetch itself rejects (no connection)
FetchRejects ==
    \E i \in 1..Len(analyses) :
        /\ analyses[i].pc = "fetch"
        /\ ShowError(i, "Failed to fetch")

Next ==
    \/ EditPage
    \/ PluginInitialScan
    \/ PluginDetect
    \/ OnOpportunitiesDetected
    \/ refreshOpportunities
    \/ AnalyzeClick
    \/ AnalyzeSend
    \/ FetchResolves
    \/ FetchServerError
    \/ FetchRejects

Spec == Init /\ [][Next]_vars

(***************************************************************************)
(* Statements about the panel.                                             *)
(***************************************************************************)
EmailCategories ==
    { "welcome_email", "order_confirmation", "shipping_notification", "password_reset",
      "email_verification", "payment_failed", "subscription_renewal", "account_deleted",
      "invoice", "appointment_confirmation", "feedback_request", "abandoned_cart",
      "generic_transactional" }

\* invocation i returns in this step
Returns(i) ==
    /\ analyses[i].pc = "fetch"
    /\ analyses' = RemoveAt(analyses, i)

\* C1: when the response of a request sent during an earlier pass arrives
\* after a later 'opportunities-detected' message replaced the list, it is
\* discarded: it changes the category, confidence and attached analysis of
\* no opportunity of the newer pass, whose list stays the one shown.
C1_LastPassWins ==
    [][ \A i \in 1..Len(analyses) :
            (Returns(i) /\ analyses[i].pass < pass) =>
                opportunities' = opportunities ]_vars

\* C5: when the model call for a request with screens throws (the endpoint
\* answers with a non-OK status) or fetch fails, no error is shown: the list
\* is rendered and every requested screen has the stub's category and
\* confidence 0.3.
C5_NetworkFailureGivesStubs ==
    [][ \A i \in 1..Len(analyses) :
            ( /\ analyses[i].pc = "fetch"
              /\ Len(analyses[i].frames) > 0
              /\ \/ FetchSettles(i, [kind |-> "throw"])
                 \/ ShowError(i, "Failed to fetch") ) =>
                /\ view' = "list"
                /\ \A n \in 1..Len(analyses[i].frames) :
                       \A k \in 1..Len(opportunities') :
                           opportunities'[k].frameId = analyses[i].frames[n].id =>
                               /\ opportunities'[k].type = "generic_transactional"
                               /\ opportunities'[k].confidence = 30 ]_vars

\* C6: after an analysis pass that ran in order (the scan it requested was
\* handled before its request was sent) and whose model reply was
\* unparseable, every opportunity has the category that the opportunity of
\* the same frame had before the pass.
C6_StubKeepsCategory ==
    [][ \A i \in 1..Len(analyses) :
            ( /\ analyses[i].pc = "fetch"
              /\ analyses[i].pass >= analyses[i].due
              /\ FetchSettles(i, [kind |-> "text", text |-> GarbageText]) ) =>
                \A k \in 1..Len(opportunities') :
                    \A j \in 1..Len(analyses[i].before) :
                        opportunities'[k].frameId = analyses[i].before[j].frameId =>
                            opportunities'[k].type = analyses[i].before[j].type ]_vars

\* C7: every opportunity's confidence is within [0,1].
C7_ConfidenceInRange ==
    \A k \in 1..Len(opportunities) :
        opportunities[k].confidence >= 0 /\ opportunities[k].confidence <= 100

\* C8: every opportunity's category is a member of the closed category enum.
C8_CategoryInEnum ==
    \A k \in 1..Len(opportunities) : opportunities[k].type \in EmailCategories

\* the frame ids carried by the records of a response
RecordIds(response) ==
    { response.analysis[n].frameId : n \in 1..Len(response.analysis) }

\* C13: when a 200 response is applied, the step does not end in the error
\* view, the list keeps its length, and every opportunity whose frameId has
\* no record in the response keeps its category, confidence and context.
C13_PartialResponseKeepsOthers ==
    [][ \A i \in 1..Len(analyses) :
            analyses[i].pc = "fetch" =>
                \A t \in PanelReplyTexts(analyses[i].frames) :
                    LET outcome == [kind |-> "text", text |-> t]
                        response == AnalyzeHandler(analyses[i].frames, outcome)
                    IN  (response.status = HttpOk /\ FetchSettles(i, outcome)) =>
                            /\ view' = "list"
                            /\ Len(opportunities') = Len(opportunities)
                            /\ \A k \in 1..Len(opportunities) :
                                   Str(opportunities[k].frameId) \notin RecordIds(response) =>
                                       /\ opportunities'[k].type = opportunities[k].type
                                       /\ opportunities'[k].confidence
                                              = opportunities[k].confidence
                                       /\ opportunities'[k].context = opportunities[k].context
                                       /\ opportunities'[k].frameId = opportunities[k].frameId
      ]_vars

\* a response with a record for the third of three screens only has been
\* applied: the third opportunity carries it, the first two do not and keep
\* their heuristic category
C13_Witness ==
    /\ view = "list"
    /\ analyses = <<>>
    /\ Len(opportunities) = 3
    /\ Cardinality(DOMAIN aiAnalysis) = 1
    /\ opportunities[3].aiAnalysis # [k |-> "undefined"]
    /\ opportunities[3].type = "order_confirmation"
    /\ opportunities[1].aiAnalysis = [k |-> "undefined"]
    /\ opportunities[1].type = "welcome_email"
    /\ opportunities[2].aiAnalysis = [k |-> "undefined"]

\* first-seen order, duplicates removed
RECURSIVE Dedup(_, _)
Dedup(seq, seen) ==
    IF seq = <<>> THEN <<>>
    ELSE IF Head(seq) \in seen THEN Dedup(Tail(seq), seen)
    ELSE <<Head(seq)>> \o Dedup(Tail(seq), seen \cup {Head(seq)})

\* the plain strings of a JSON array of strings
PlainStrings(arr) == [n \in 1..Len(arr.v) |-> arr.v[n].v]

\* C16: when a text response is applied, the detectedVariables of every
\* opportunity that has a record become the duplicate-free union of the
\* record's suggestedVariables followed by the variables the opportunity had
\* (text before heuristic, first appearance first).
C16_VariablesAreMerged ==
    [][ \A i \in 1..Len(analyses) :
            analyses[i].pc = "fetch" =>
                \A t \in PanelReplyTexts(analyses[i].frames) :
                    LET outcome == [kind |-> "text", text |-> t]
                        response == AnalyzeHandler(analyses[i].frames, outcome)
                    IN  (response.status = HttpOk /\ FetchSettles(i, outcome)) =>
                            \A k \in 1..Len(opportunities') :
                                Str(opportunities'[k].frameId) \in RecordIds(response) =>
                                    opportunities'[k].context.detectedVariables
                                        = Dedup(PlainStrings(
                                                    opportunities'[k].aiAnalysis.suggestedVariables)
                                                  \o opportunities[k].context.detectedVariables,
                                                {})
      ]_vars

(***************************************************************************)
(* The join of a text response with the list, on its own: the same reply   *)
(* records are applied to the same list in two orders.  The records reach  *)
(* the panel through the endpoint (parseAnalysisResponse keeps the order   *)
(* of the model's array) and the loop of ui.ts 388-398.                    *)
(***************************************************************************)
MaxRecords == 3

JoinKinds == {"valid", "overconfident"}

GoneFrame == FrameData("9:9", "Deleted Screen")

JoinLists ==
    {detectEmailOpportunities(ScenarioAPage, FALSE), detectEmailOpportunities(PageHome, TRUE)}

\* the records a reply about the list can hold: one of either kind for each
\* screen of the list and for a screen that is not in it
JoinPool(opps) ==
    { ReplyItem(f, kind) :
        f \in { FramesData(opps)[k] : k \in 1..Len(opps) } \cup {GoneFrame},
        kind \in JoinKinds }

Orders(n) ==
    { p \in [1..n -> 1..n] : \A a, b \in 1..n : p[a] = p[b] => a = b }

\* the list after the endpoint's answer to a reply holding `items` is applied
JoinResult(opps, items) ==
    LET response == AnalyzeHandler(FramesData(opps),
                                   [kind |-> "text", text |-> ArrayText(items)])
    IN  ApplyAnalysis(opps, response.analysis)

JoinInit ==
    /\ jOpps \in JoinLists
    /\ \E n \in 1..MaxRecords : jItems \in [1..n -> JoinPool(jOpps)]
    /\ jPerm = <<>>
    /\ jOutA = NotApplied
    /\ jOutB = NotApplied
    /\ HeurIdle
    /\ AnalyzeIdle
    /\ VisionIdle
    /\ PanelIdle
    /\ FlowIdle
    /\ EmailIdle

JoinInOrder ==
    /\ jOutA = NotApplied
    /\ jOutA' = JoinResult(jOpps, jItems)
    /\ UNCHANGED <<jOpps, jItems, jPerm, jOutB, heurVars, analyzeVars, visionVars, panelVars,
                   flowVars, emailVars>>

JoinPermuted ==
    /\ jOutB = NotApplied
    /\ \E p \in Orders(Len(jItems)) :
           /\ jPerm' = [n \in 1..Len(jItems) |-> jItems[p[n]]]
           /\ jOutB' = JoinResult(jOpps, jPerm')
    /\ UNCHANGED <<jOpps, jItems, jOutA, heurVars, analyzeVars, visionVars, panelVars, flowVars,
                   emailVars>>

JoinNext == JoinInOrder \/ JoinPermuted

SpecJoin == JoinInit /\ [][JoinNext]_vars

\* the positions of the records of `items` that carry the frame id
RecordsFor(items, frameId) ==
    { n \in 1..Len(items) : items[n].v.frameId = Str(frameId) }

\* every opportunity of `after` holds a record only if the record carries
\* the opportunity's frameId, and is as before when no record carries it
JoinedById(before, items, after) ==
    /\ Len(after) = Len(before)
    /\ \A k \in 1..Len(before) :
           /\ after[k].frameId = before[k].frameId
           /\ after[k].aiAnalysis # [k |-> "undefined"] =>
                  after[k].aiAnalysis.frameId = Str(before[k].frameId)
           /\ RecordsFor(items, before[k].frameId) = {} => after[k] = before[k]

\* the record latest in reply order among those carrying the frame id
LastRecordFor(items, frameId) ==
    LET hits == RecordsFor(items, frameId)
    IN  AnalysisOfItem(items[CHOOSE n \in hits : \A m \in hits : n >= m])

DistinctIds(items) ==
    \A a, b \in 1..Len(items) : items[a].v.frameId = items[b].v.frameId => a = b

\* C14 as stated: records are attached by frameId only, and the list after
\* the reply is the same for every order of the same records.
C14_JoinAsStated ==
    /\ jOutA # NotApplied => JoinedById(jOpps, jItems, jOutA)
    /\ (jOutA # NotApplied /\ jOutB # NotApplied) => jOutA = jOutB

\* C14: records are attached by frameId only (an opportunity holds only a
\* record carrying its frameId, a record with an id of no opportunity
\* changes nothing); of several records carrying the same frameId the one
\* latest in reply order is applied; and the list after the reply is the
\* same for every order of records whose frameIds are pairwise distinct.
C14_JoinByFrameId ==
    /\ jOutA # NotApplied =>
           /\ JoinedById(jOpps, jItems, jOutA)
           /\ \A k \in 1..Len(jOpps) :
                  RecordsFor(jItems, jOpps[k].frameId) # {} =>
                      LET item == LastRecordFor(jItems, jOpps[k].frameId)
                      IN  /\ jOutA[k].aiAnalysis = item
                          /\ jOutA[k].type = item.suggestedEmailType.v
                          /\ jOutA[k].confidence = item.confidence.v
    /\ (jOutA # NotApplied /\ jOutB # NotApplied /\ DistinctIds(jItems)) => jOutA = jOutB

\* three records with distinct frame ids, one of them for a screen that is
\* not in the list, have been applied in two different orders and changed
\* the list
C14_Witness ==
    /\ jOutA # NotApplied
    /\ jOutB # NotApplied
    /\ Len(jItems) = 3
    /\ DistinctIds(jItems)
    /\ jPerm # jItems
    /\ RecordsFor(jItems, GoneFrame.id) # {}
    /\ jOutA # jOpps

(***************************************************************************)
(* The panel's demo analyses and flow summaries (src/ui.ts 454-577,        *)
(* 685-860, 900-961).  Analyses are records of plain strings here, as the  *)
(* panel holds them after response.json().                                 *)
(***************************************************************************)
\* does p occur in s at position i
StartsAt(s, i, p) == i + Len(p) - 1 <= Len(s) /\ SubSeq(s, i, i + Len(p) - 1) = p

\* a regular expression alternative: pre, then at most one character if
\* gap, then post ("sign.?up" is Opt("sign", "up"), "order" is Lit("order"))
Lit(word) == [pre |-> word, gap |-> FALSE, post |-> ""]

Opt(pre, post) == [pre |-> pre, gap |-> TRUE, post |-> post]

MatchesAlt(s, alt) ==
    \E i \in 1..Len(s) :
        /\ StartsAt(s, i, alt.pre)
        /\ \/ StartsAt(s, i + Len(alt.pre), alt.post)
           \/ /\ alt.gap
              /\ i + Len(alt.pre) <= Len(s)
              /\ StartsAt(s, i + Len(alt.pre) + 1, alt.post)

\* String.prototype.match with an alternation, on a lower-cased string
Match(s, alts) == \E k \in 1..Len(alts) : MatchesAlt(s, alts[k])

Lits(words) == [k \in 1..Len(words) |-> Lit(words[k])]

\* Array.prototype.join
RECURSIVE Join(_, _)
Join(strings, sep) ==
    IF strings = <<>> THEN ""
    ELSE IF Len(strings) = 1 THEN strings[1]
    ELSE strings[1] \o sep \o Join(Tail(strings), sep)

\* extractFrameContent(node).textContent (src/code.ts 612-647): the
\* characters of the text nodes under the node that are not blank, in
\* traversal order
TextContent(node) ==
    LET texts == SelectSeq(node.children, LAMBDA c : c.characters # "")
    IN  [k \in 1..Len(texts) |-> texts[k].characters]

\* opp.frameContent?.textContent || [] for an opportunity detected on `nodes`
TextContentOf(nodes, frameId) ==
    LET hits == { n \in 1..Len(nodes) : nodes[n].id = frameId }
    IN  IF hits = {} THEN <<>> ELSE TextContent(nodes[CHOOSE n \in hits : TRUE])

\* the else-if chain of generateMockAnalysis (ui.ts 470-574): patterns for
\* the name, patterns for the text, and the fields the branch sets
MockTextBranches ==
    << [ name |-> <<Opt("sign", "up"), Lit("register"), Opt("create", "account"),
                    Lit("join"), Lit("onboard")>>,
         text |-> <<Opt("sign", "up"), Lit("register"), Opt("create", "account"),
                    Lit("join"), Lit("password"), Lit("email")>>,
         detectedPurpose |-> "User registration/signup flow",
         suggestedEmailType |-> "welcome_email",
         suggestedEmailName |-> "Welcome Email",
         confidence |-> 92,
         suggestedVariables |-> <<"user_name", "email", "verification_link">> ],
       [ name |-> Lits(<<"order", "checkout", "cart", "purchase", "buy", "payment">>),
         text |-> Lits(<<"order", "total", "price", "quantity", "checkout", "payment",
                         "card">>),
         detectedPurpose |-> "E-commerce checkout/order flow",
         suggestedEmailType |-> "order_confirmation",
         suggestedEmailName |-> "Order Confirmation",
         confidence |-> 95,
         suggestedVariables |-> <<"customer_name", "order_number", "order_total", "items",
                                  "shipping_address">> ],
       [ name |-> Lits(<<"password", "reset", "forgot", "recover">>),
         text |-> Lits(<<"password", "reset", "forgot", "recover", "email">>),
         detectedPurpose |-> "Password reset/recovery flow",
         suggestedEmailType |-> "password_reset",
         suggestedEmailName |-> "Password Reset",
         confidence |-> 90,
         suggestedVariables |-> <<"user_name", "reset_link", "expiry_time">> ],
       [ name |-> Lits(<<"book", "appointment", "schedule", "reservation", "calendar">>),
         text |-> Lits(<<"book", "appointment", "schedule", "date", "time", "confirm">>),
         detectedPurpose |-> "Booking/appointment scheduling flow",
         suggestedEmailType |-> "appointment_confirmation",
         suggestedEmailName |-> "Appointment Confirmation",
         confidence |-> 88,
         suggestedVariables |-> <<"user_name", "appointment_date", "appointment_time",
                                  "location">> ],
       [ name |-> Lits(<<"invoice", "bill", "receipt", "payment">>),
         text |-> Lits(<<"invoice", "bill", "amount", "due", "payment">>),
         detectedPurpose |-> "Invoice/billing screen",
         suggestedEmailType |-> "invoice",
         suggestedEmailName |-> "Invoice Email",
         confidence |-> 85,
         suggestedVariables |-> <<"customer_name", "invoice_number", "amount", "due_date">> ],
       [ name |-> Lits(<<"subscri", "plan", "pricing", "upgrade", "premium">>),
         text |-> Lits(<<"subscri", "plan", "monthly", "yearly", "upgrade">>),
         detectedPurpose |-> "Subscription/pricing flow",
         suggestedEmailType |-> "subscription_renewal",
         suggestedEmailName |-> "Subscription Email",
         confidence |-> 82,
         suggestedVariables |-> <<"user_name", "plan_name", "renewal_date", "amount">> ],
       [ name |-> Lits(<<"feedback", "review", "rating", "survey">>),
         text |-> <<Lit("feedback"), Lit("review"), Lit("rate"), Opt("how", "was"),
                    Lit("experience")>>,
         detectedPurpose |-> "Feedback/review collection screen",
         suggestedEmailType |-> "feedback_request",
         suggestedEmailName |-> "Feedback Request",
         confidence |-> 80,
         suggestedVariables |-> <<"user_name", "product_name", "feedback_link">> ],
       [ name |-> <<Lit("verify"), Opt("confirm", "email"), Lit("validate")>>,
         text |-> Lits(<<"verify", "confirm", "code", "otp">>),
         detectedPurpose |-> "Email verification flow",
         suggestedEmailType |-> "email_verification",
         suggestedEmailName |-> "Email Verification",
         confidence |-> 88,
         suggestedVariables |-> <<"user_name", "verification_link", "verification_code">> ] >>

\* ui.ts 460-469: the values generateMockAnalysis starts from
MockTextDefault ==
    [ detectedPurpose |-> "General product screen",
      suggestedEmailType |-> "generic_transactional",
      suggestedEmailName |-> "Transactional Email",
      confidence |-> 60,
      suggestedVariables |-> <<"user_name">> ]

\* the branches of the chain whose test holds
TakenTextBranches(name, allText) ==
    { b \in 1..Len(MockTextBranches) :
        \/ Match(name, MockTextBranches[b].name)
        \/ Match(allText, MockTextBranches[b].text) }

\* {...analysis, <the fields of the first branch taken>}
MockAnalysisOf(opp, fields) ==
    [ frameId |-> opp.frameId,
      frameName |-> opp.frameName,
      detectedPurpose |-> fields.detectedPurpose,
      suggestedEmailType |-> fields.suggestedEmailType,
      suggestedEmailName |-> fields.suggestedEmailName,
      confidence |-> fields.confidence,
      suggestedVariables |-> fields.suggestedVariables ]

FirstTaken(branches, taken, default) ==
    IF taken = {} THEN default
    ELSE branches[CHOOSE b \in taken : \A c \in taken : b <= c]

\* generateMockAnalysis (ui.ts 454-577) for an opportunity whose
\* frameContent.textContent is textContent; reasoning is left out
generateMockAnalysis(opp, textContent) ==
    MockAnalysisOf(opp,
                   FirstTaken(MockTextBranches,
                              TakenTextBranches(toLowerCase(opp.frameName),
                                                toLowerCase(Join(textContent, " "))),
                              MockTextDefault))

\* the else-if chain of generateMockVisualAnalysis (ui.ts 703-791)
MockVisualBranches ==
    << [ name |-> <<Lit("login"), Opt("sign", "in")>>,
         userFlowPurpose |-> "User authentication - Login step",
         suggestedEmailType |-> "welcome_email",
         suggestedEmailName |-> "Login Notification",
         emailContext |-> "Notify user of successful login or new device login",
         confidence |-> 88 ],
       [ name |-> <<Opt("sign", "up"), Lit("register"), Opt("create", "account")>>,
         userFlowPurpose |-> "User registration - Account creation",
         suggestedEmailType |-> "welcome_email",
         suggestedEmailName |-> "Welcome Email",
         emailContext |-> "Welcome new user, confirm email, provide getting started tips",
         confidence |-> 92 ],
       [ name |-> Lits(<<"checkout", "payment", "order">>),
         userFlowPurpose |-> "E-commerce checkout - Payment step",
         suggestedEmailType |-> "order_confirmation",
         suggestedEmailName |-> "Order Confirmation",
         emailContext |->
             "Confirm order details, items, total, shipping address, estimated delivery",
         confidence |-> 95 ],
       [ name |-> Lits(<<"cart", "basket">>),
         userFlowPurpose |-> "E-commerce - Shopping cart review",
         suggestedEmailType |-> "abandoned_cart",
         suggestedEmailName |-> "Abandoned Cart Reminder",
         emailContext |->
             "Remind user of items left in cart, offer incentive to complete purchase",
         confidence |-> 85 ],
       [ name |-> Lits(<<"profile", "account", "settings">>),
         userFlowPurpose |-> "Account management - Profile settings",
         suggestedEmailType |-> "generic_transactional",
         suggestedEmailName |-> "Account Update Confirmation",
         emailContext |->
             "Confirm profile changes, security notification for sensitive changes",
         confidence |-> 75 ],
       [ name |-> Lits(<<"dashboard", "home", "overview">>),
         userFlowPurpose |-> "Main dashboard - Overview",
         suggestedEmailType |-> "generic_transactional",
         suggestedEmailName |-> "Activity Summary",
         emailContext |-> "Weekly/monthly summary of user activity and important updates",
         confidence |-> 70 ],
       [ name |-> Lits(<<"confirm", "success", "thank">>),
         userFlowPurpose |-> "Action completion - Success confirmation",
         suggestedEmailType |-> "order_confirmation",
         suggestedEmailName |-> "Confirmation Email",
         emailContext |->
             "Confirm the action was successful, provide reference number, next steps",
         confidence |-> 88 ],
       [ name |-> Lits(<<"booking", "appointment", "schedule">>),
         userFlowPurpose |-> "Booking flow - Schedule selection",
         suggestedEmailType |-> "appointment_confirmation",
         suggestedEmailName |-> "Booking Confirmation",
         emailContext |->
             "Confirm appointment details, date, time, location, cancellation policy",
         confidence |-> 90 ] >>

\* ui.ts 689-700: the values generateMockVisualAnalysis starts from
MockVisualDefault ==
    [ userFlowPurpose |-> "General application screen",
      suggestedEmailType |-> "generic_transactional",
      suggestedEmailName |-> "Transactional Email",
      emailContext |-> "Standard notification about user action",
      confidence |-> 60 ]

TakenVisualBranches(name) ==
    { b \in 1..Len(MockVisualBranches) : Match(name, MockVisualBranches[b].name) }

MockVisualOf(frame, fields) ==
    [ frameId |-> frame.frameId,
      frameName |-> frame.frameName,
      imageData |-> frame.imageData,
      userFlowPurpose |-> fields.userFlowPurpose,
      suggestedEmailType |-> fields.suggestedEmailType,
      suggestedEmailName |-> fields.suggestedEmailName,
      emailContext |-> fields.emailContext,
      confidence |-> fields.confidence ]

\* generateMockVisualAnalysis (ui.ts 685-794); designSummary and
\* keyElements are left out
generateMockVisualAnalysis(frame) ==
    MockVisualOf(frame,
                 FirstTaken(MockVisualBranches,
                            TakenVisualBranches(toLowerCase(frame.frameName)),
                            MockVisualDefault))

\* Array.prototype.some(p => p.includes(w1) || p.includes(w2) ...)
SomeIncludes(strings, words) ==
    \E k \in 1..Len(strings) : \E w \in 1..Len(words) : includes(strings[k], words[w])

\* Array.prototype.find(f => f.suggestedEmailType === type), for a type
\* that one of the analyses has
FirstOfType(frameAnalyses, type) ==
    LET hits == { k \in 1..Len(frameAnalyses) : frameAnalyses[k].suggestedEmailType = type }
    IN  frameAnalyses[CHOOSE k \in hits : \A h \in hits : k <= h]

\* a || b for strings
OrString(a, b) == IF a = "" THEN b ELSE a

\* `screen${screenCount > 1 ? 's' : ''}`
Plural(screenCount) == IF screenCount > 1 THEN "screens" ELSE "screen"

\* ui.ts 801-827: productType
FlowProductType(purposes) ==
    IF SomeIncludes(purposes, <<"checkout", "cart", "order", "e-commerce">>)
    THEN "E-commerce Platform"
    ELSE IF SomeIncludes(purposes, <<"dashboard", "overview", "analytics">>)
    THEN "SaaS Dashboard"
    ELSE IF SomeIncludes(purposes, <<"booking", "appointment", "schedule">>)
    THEN "Booking Platform"
    ELSE IF SomeIncludes(purposes, <<"login", "registration", "auth">>)
    THEN "Web/Mobile Application"
    ELSE "Application"

\* ui.ts 802-827: productDescription
FlowProductDescription(productType) ==
    CASE productType = "E-commerce Platform" ->
           "This appears to be an e-commerce or shopping application with a complete purchase flow."
      [] productType = "SaaS Dashboard" ->
           "This appears to be a SaaS product or dashboard application for managing data and workflows."
      [] productType = "Booking Platform" ->
           "This appears to be a booking or scheduling application for appointments and reservations."
      [] productType = "Web/Mobile Application" ->
           "This appears to be an application with user authentication and account management features."
      [] OTHER ->
           "This design contains multiple screens that form a user journey through the application."

\* the entry of ui.ts 840-845 for a category and the analysis found for it
FlowEmail(type, analysis) ==
    [ type    |-> type,
      name    |-> OrString(analysis.suggestedEmailName, type),
      context |-> analysis.emailContext ]

EmailTypes(frameAnalyses) ==
    [k \in 1..Len(frameAnalyses) |-> frameAnalyses[k].suggestedEmailType]

FlowEmailsOf(frameAnalyses, unique) ==
    [n \in 1..Len(unique) |-> FlowEmail(unique[n], FirstOfType(frameAnalyses, unique[n]))]

\* the suggestions built from every analysis, repeats of a category included
FlowEmails_Undeduplicated(frameAnalyses) ==
    FlowEmailsOf(frameAnalyses, EmailTypes(frameAnalyses))

\* ui.ts 838-846: uniqueEmails
FlowEmails(frameAnalyses) ==
    FlowEmailsOf(frameAnalyses, Dedup(EmailTypes(frameAnalyses), {}))

\* the steps numbered from 0
FlowSteps_ZeroBased(frameAnalyses) ==
    [k \in 1..Len(frameAnalyses) |->
        [ step      |-> k - 1,
          frameName |-> frameAnalyses[k].frameName,
          purpose   |-> frameAnalyses[k].userFlowPurpose,
          thumbnail |-> frameAnalyses[k].imageData ]]

\* ui.ts 829-836: flowSteps (keyElements left out)
FlowSteps(frameAnalyses) ==
    [k \in 1..Len(frameAnalyses) |->
        [ step      |-> k,
          frameName |-> frameAnalyses[k].frameName,
          purpose   |-> frameAnalyses[k].userFlowPurpose,
          thumbnail |-> frameAnalyses[k].imageData ]]

RECURSIVE SumConfidence(_)
SumConfidence(frameAnalyses) ==
    IF frameAnalyses = <<>> THEN 0
    ELSE Head(frameAnalyses).confidence + SumConfidence(Tail(frameAnalyses))

\* ui.ts 798: purposes
FlowPurposes(frameAnalyses) ==
    [k \in 1..Len(frameAnalyses) |-> toLowerCase(frameAnalyses[k].userFlowPurpose)]

\* ui.ts 829-859 for the productType found.  The summary is the list of
\* the pieces of the template string; overallConfidence is the quotient
\* total / count of hundredths, kept unevaluated
FlowSummaryOf(frameAnalyses, productType) ==
    [ productType       |-> productType,
      summary           |-> <<"This ", toLowerCase(productType), " design contains ",
                              Len(frameAnalyses), Plural(Len(frameAnalyses)),
                              " that guide users through a complete flow. ",
                              FlowProductDescription(productType)>>,
      screenCount       |-> Len(frameAnalyses),
      flowSteps         |-> FlowSteps(frameAnalyses),
      suggestedEmails   |-> FlowEmails(frameAnalyses),
      overallConfidence |-> [total |-> SumConfidence(frameAnalyses),
                             count |-> Len(frameAnalyses)] ]

\* generateCombinedFlowSummary (ui.ts 796-860)
generateCombinedFlowSummary(frameAnalyses) ==
    FlowSummaryOf(frameAnalyses, FlowProductType(FlowPurposes(frameAnalyses)))

\* _formatEmailType (ui.ts 111-115): the words between "_" capitalised and
\* joined by spaces
RECURSIVE FormatWords(_, _)
FormatWords(type, atStart) ==
    IF type = "" THEN ""
    ELSE LET c == CharAt(type, 1)
             rest == SubSeq(type, 2, Len(type))
         IN  IF c = "_" THEN " " \o FormatWords(rest, TRUE)
             ELSE (IF atStart /\ \E u \in UpperCase : LowerOf[u] = c
                   THEN CHOOSE u \in UpperCase : LowerOf[u] = c
                   ELSE c)
                      \o FormatWords(rest, FALSE)

_formatEmailType(type) == FormatWords(type, TRUE)

\* ui.ts 906-930: productType
TextProductType(combinedText, purposes) ==
    IF \/ Match(combinedText, Lits(<<"cart", "checkout", "order", "buy", "purchase",
                                     "price", "shipping">>))
       \/ SomeIncludes(purposes, <<"e-commerce", "checkout", "order">>)
    THEN "E-commerce Platform"
    ELSE IF \/ Match(combinedText, Lits(<<"dashboard", "analytics", "metrics", "report",
                                          "overview">>))
            \/ SomeIncludes(purposes, <<"dashboard", "analytics">>)
    THEN "SaaS Dashboard"
    ELSE IF \/ Match(combinedText, Lits(<<"book", "appointment", "schedule", "calendar",
                                          "reserve">>))
            \/ SomeIncludes(purposes, <<"booking", "appointment">>)
    THEN "Booking Platform"
    ELSE IF \/ Match(combinedText, Lits(<<"login", "sign up", "register", "password", "email",
                                          "account">>))
            \/ SomeIncludes(purposes, <<"registration", "authentication">>)
    THEN "Web/Mobile Application"
    ELSE "Application"

\* ui.ts 914-930: productDescription
TextProductDescription(productType) ==
    CASE productType = "E-commerce Platform" ->
           "Based on text analysis, this appears to be an e-commerce application with shopping and checkout functionality."
      [] productType = "SaaS Dashboard" ->
           "Based on text analysis, this appears to be a SaaS or analytics dashboard for data management."
      [] productType = "Booking Platform" ->
           "Based on text analysis, this appears to be a booking or scheduling platform."
      [] productType = "Web/Mobile Application" ->
           "Based on text analysis, this appears to be an application with user authentication features."
      [] OTHER ->
           "This design contains multiple screens forming a user journey through the application."

\* Array.prototype.flatMap(f => f.textContent || [])
RECURSIVE FlatTexts(_)
FlatTexts(frameAnalyses) ==
    IF frameAnalyses = <<>> THEN <<>>
    ELSE Head(frameAnalyses).textContent \o FlatTexts(Tail(frameAnalyses))

\* the entry of ui.ts 943-947 for a category and the analysis found for it
TextEmail(type, analysis) ==
    [type |-> type, name |-> OrString(analysis.suggestedEmailName, _formatEmailType(type))]

TextEmailsOf(frameAnalyses, unique) ==
    [n \in 1..Len(unique) |-> TextEmail(unique[n], FirstOfType(frameAnalyses, unique[n]))]

\* ui.ts 941-948: uniqueEmails
TextEmails(frameAnalyses) ==
    TextEmailsOf(frameAnalyses, Dedup(EmailTypes(frameAnalyses), {}))

\* Array.prototype.slice(0, n)
Slice(seq, n) == SubSeq(seq, 1, IF Len(seq) < n THEN Len(seq) ELSE n)

\* ui.ts 932-939: flowSteps (reasoning left out)
TextSteps(frameAnalyses) ==
    [k \in 1..Len(frameAnalyses) |->
        [ step        |-> k,
          frameName   |-> frameAnalyses[k].frameName,
          purpose     |-> OrString(frameAnalyses[k].detectedPurpose, "General screen"),
          textPreview |-> Join(Slice(frameAnalyses[k].textContent, 3), ", ") ]]

\* ui.ts 902: purposes
TextPurposes(frameAnalyses) ==
    [k \in 1..Len(frameAnalyses) |-> toLowerCase(frameAnalyses[k].detectedPurpose)]

\* ui.ts 932-960 for the productType found
TextSummaryOf(frameAnalyses, productType) ==
    [ productType     |-> productType,
      summary         |-> <<"Analyzed ", Len(frameAnalyses), Plural(Len(frameAnalyses)),
                            " based on frame names and text content. ",
                            TextProductDescription(productType)>>,
      screenCount     |-> Len(frameAnalyses),
      flowSteps       |-> TextSteps(frameAnalyses),
      suggestedEmails |-> TextEmails(frameAnalyses),
      analysisType    |-> "text" ]

\* generateCombinedTextAnalysis (ui.ts 900-961)
generateCombinedTextAnalysis(frameAnalyses) ==
    TextSummaryOf(frameAnalyses,
                  TextProductType(toLowerCase(Join(FlatTexts(frameAnalyses), " ")),
                                  TextPurposes(frameAnalyses)))

(***************************************************************************)
(* The panel with its two analysis channels, after the start-up scan has   *)
(* been shown: 'Analyze with AI' (ui.ts 311-417, 419-452) and 'Visual      *)
(* Analysis' (ui.ts 580-683) are each started once and complete in either  *)
(* order.  The api-url field is not edited in between, and what the two    *)
(* endpoints do when asked (textReply, visionReply) is fixed from the      *)
(* start, so that behaviours differ in the order of completion only.       *)
(***************************************************************************)
MaxScreens == 3

TextOf(characters) == << [type |-> "TEXT", name |-> "Label", characters |-> characters] >>

\* the screens a page is made of: name and children
FlowScreenPool ==
    { [name |-> "Login", children |-> TextOf("Password")],
      [name |-> NameCheckout, children |-> TextOf("Total price")],
      [name |-> "Thank You", children |-> NoChildren],
      [name |-> "Dashboard", children |-> TextOf("Weekly report")],
      [name |-> "Booking", children |-> TextOf("Pick a slot")],
      [name |-> "About", children |-> TextOf("Add to cart")] }

\* pages of up to MaxScreens different screens
FlowPages ==
    { [i \in 1..Len(f) |->
          [id |-> FrameIds[i], name |-> f[i].name, type |-> "FRAME", width |-> 400,
           height |-> 800, children |-> f[i].children]] :
        f \in UNION { { g \in [1..m -> FlowScreenPool] :
                          \A a, b \in 1..m : g[a] = g[b] => a = b } : m \in 0..MaxScreens } }

ApiUrls == {"", "https://example.test/api"}

TextReplies == {"valid", "throw"}

VisionReplies == {"full", "firstThrows", "error"}

\* the frames the plugin answers 'export-frames-visual' with: one per
\* screen of the page, in scan order
ExportedFramesOf(nodes) ==
    LET screens == ScreensOf(nodes)
    IN  [i \in 1..Len(screens) |->
            [frameId |-> screens[i].id, frameName |-> screens[i].name,
             imageData |-> <<"image of", screens[i].id>>]]

\* ui.ts 441-446: {...analysis, frameName, frameId, textContent}
WithText(analysis, opp, textContent) ==
    [ frameId |-> opp.frameId,
      frameName |-> opp.frameName,
      detectedPurpose |-> analysis.detectedPurpose,
      suggestedEmailType |-> analysis.suggestedEmailType,
      suggestedEmailName |-> analysis.suggestedEmailName,
      confidence |-> analysis.confidence,
      suggestedVariables |-> analysis.suggestedVariables,
      textContent |-> textContent ]

MockFrameAnalysis(opp, textContent) ==
    WithText(generateMockAnalysis(opp, textContent), opp, textContent)

\* ui.ts 437-447: the demo analyses of the list, each with the text of its frame
MockFrameAnalyses(opps, nodes) ==
    [k \in 1..Len(opps) |-> MockFrameAnalysis(opps[k], TextContentOf(nodes, opps[k].frameId))]

\* ui.ts 438-442: aiAnalysis after clear() and one set() per opportunity
RECURSIVE StoreMock(_, _)
StoreMock(m, frameAnalyses) ==
    IF frameAnalyses = <<>> THEN m
    ELSE StoreMock(MapSet(m, Str(Head(frameAnalyses).frameId), Head(frameAnalyses)),
                   Tail(frameAnalyses))

\* the reply of the text endpoint's model: one record of the kind per frame
TextReplyText(frames, kind) ==
    ArrayText([i \in 1..Len(frames) |-> ReplyItem(frames[i], kind)])

\* mockAIAnalysis from its await on (ui.ts 434-451), for the demo analyses made
MockTextEffect(p, frameAnalyses) ==
    [ opportunities |-> p.opportunities,
      aiAnalysis    |-> StoreMock(EmptyMap, frameAnalyses),
      flowSummary   |-> generateCombinedTextAnalysis(frameAnalyses),
      view          |-> "text-summary",
      result        |-> frameAnalyses ]

\* analyzeWithAI from its fetch on (ui.ts 378-417), for the endpoint's response
ApiTextEffect(p, response) ==
    IF response.status = HttpOk
    THEN [ opportunities |-> ApplyAnalysis(p.opportunities, response.analysis),
           aiAnalysis    |-> StoreAnalysis(EmptyMap, response.analysis),
           flowSummary   |-> p.flowSummary,
           view          |-> "list",
           result        |-> response.analysis ]
    ELSE [ opportunities |-> p.opportunities,
           aiAnalysis    |-> p.aiAnalysis,
           flowSummary   |-> p.flowSummary,
           view          |-> ApiError(response.status),
           result        |-> <<>> ]

\* what the text endpoint's model call does for these frames
TextOutcome(frames, reply) ==
    IF reply = "throw" THEN [kind |-> "throw"]
    ELSE [kind |-> "text", text |-> TextReplyText(frames, reply)]

TextResponse(frames, reply) == AnalyzeHandler(frames, TextOutcome(frames, reply))

\* the second half of analyzeWithAI, from its last await on, applied to
\* the panel's data p: mockAIAnalysis without an api url (ui.ts 343-348),
\* else the endpoint's response applied
TextEffect(p, nodes, url, reply) ==
    IF url = "" THEN MockTextEffect(p, MockFrameAnalyses(p.opportunities, nodes))
    ELSE ApiTextEffect(p, TextResponse(FramesData(p.opportunities), reply))

\* the first of the frames with the id, if any (Array.prototype.find)
ImageOf(frames, hits) ==
    IF hits = {} THEN Undefined
    ELSE frames[CHOOSE i \in hits : \A j \in hits : i <= j].imageData

\* ui.ts 654-658: one analysis of the response with its frame's image
WithImage(analysis, frames) ==
    [ frameId |-> analysis.frameId.v,
      frameName |-> analysis.frameName.v,
      imageData |-> ImageOf(frames, { i \in 1..Len(frames) :
                                        Str(frames[i].frameId) = analysis.frameId }),
      userFlowPurpose |-> analysis.userFlowPurpose.v,
      suggestedEmailType |-> analysis.suggestedEmailType.v,
      suggestedEmailName |-> analysis.suggestedEmailName.v,
      emailContext |-> analysis.emailContext.v,
      confidence |-> analysis.confidence.v ]

\* the analyses the vision endpoint answers with (api/vision.ts 239-265)
VisionResponse(frames, reply) ==
    [i \in 1..Len(frames) |->
        VisionIteration(frames[i],
                        IF reply = "firstThrows" /\ i = 1 THEN [kind |-> "throw"]
                        ELSE [kind |-> "text", text |-> <<LBrace, BodyFull, RBrace>>])]

\* ui.ts 652-662, 675-682 for the analyses obtained
VisionEffectOf(p, frameAnalyses) ==
    [ opportunities |-> p.opportunities,
      aiAnalysis    |-> p.aiAnalysis,
      flowSummary   |-> generateCombinedFlowSummary(frameAnalyses),
      view          |-> "flow-summary",
      result        |-> frameAnalyses ]

WithImages(analyses_, frames) ==
    [i \in 1..Len(analyses_) |-> WithImage(analyses_[i], frames)]

\* the second half of processVisualAnalysis, from its last await on:
\* mockVisualAnalysis (ui.ts 671-683) without an api url or after a failed
\* request, else ui.ts 647-662
VisionEffect(p, url, reply) ==
    VisionEffectOf(p,
        IF url = "" \/ reply = "error"
        THEN [i \in 1..Len(p.exportedFrames) |->
                 generateMockVisualAnalysis(p.exportedFrames[i])]
        ELSE WithImages(VisionResponse(p.exportedFrames, reply), p.exportedFrames))

\* fetch() is called whatever the api-url field holds
FetchesOf_Always(url, endpoint) == {endpoint}

\* ui.ts 339-347, 626-634: fetch() is reached only with a non-empty api url
FetchesOf(url, endpoint) == IF url = "" THEN {} ELSE {endpoint}

PanelData ==
    [ opportunities |-> opportunities, aiAnalysis |-> aiAnalysis,
      flowSummary |-> flowSummary, exportedFrames |-> exportedFrames ]

FlowInit ==
    /\ page \in FlowPages
    /\ initialScan = FALSE
    /\ uiToPlugin = <<>>
    /\ pluginToUi = <<>>
    /\ opportunities = detectEmailOpportunities(page, FALSE)
    /\ aiAnalysis = EmptyMap
    /\ view = "list"
    /\ analyses = <<>>
    /\ pass = 1
    /\ apiUrl \in ApiUrls
    /\ textReply \in (IF apiUrl = "" THEN {"none"} ELSE TextReplies)
    /\ visionReply \in (IF apiUrl = "" THEN {"none"} ELSE VisionReplies)
    /\ exportedFrames = <<>>
    /\ flowSummary = JNull
    /\ textRun = "idle"
    /\ visionRun = "idle"
    /\ textResult = <<>>
    /\ visionResult = <<>>
    /\ fetched = {}
    /\ HeurIdle
    /\ AnalyzeIdle
    /\ VisionIdle
    /\ JoinIdle
    /\ EmailIdle

FlowOthers == <<heurVars, analyzeVars, visionVars, joinVars, emailVars, page, initialScan, uiToPlugin,
                pluginToUi, analyses, apiUrl, textReply, visionReply>>

\* 'Analyze with AI' is clicked (ui.ts 311-376): the scan of every frame it
\* asks for is answered and shown within its 500 ms wait, then the spinner
\* is shown and the analysis awaited
FlowAnalyzeClick ==
    /\ textRun = "idle"
    /\ opportunities' = detectEmailOpportunities(page, TRUE)
    /\ pass' = pass + 1
    /\ view' = "analyzing"
    /\ textRun' = "wait"
    /\ UNCHANGED <<aiAnalysis, exportedFrames, flowSummary, visionRun, textResult,
                   visionResult, fetched, FlowOthers>>

\* the awaited analysis is there: analyzeWithAI runs to its end
FlowTextCompletes ==
    /\ textRun = "wait"
    /\ \E after \in {TextEffect(PanelData, page, apiUrl, textReply)} :
           /\ opportunities' = after.opportunities
           /\ aiAnalysis' = after.aiAnalysis
           /\ flowSummary' = after.flowSummary
           /\ view' = after.view
           /\ textResult' = after.result
    /\ textRun' = "done"
    /\ fetched' = fetched \cup FetchesOf(apiUrl, "/api/analyze")
    /\ UNCHANGED <<exportedFrames, visionRun, visionResult, pass, FlowOthers>>

\* 'Visual Analysis' is clicked: startVisualAnalysis (ui.ts 580-598)
FlowVisualClick ==
    /\ visionRun = "idle"
    /\ view' = "capturing"
    /\ visionRun' = "export"
    /\ UNCHANGED <<opportunities, aiAnalysis, exportedFrames, flowSummary, textRun,
                   textResult, visionResult, fetched, pass, FlowOthers>>

\* 'frames-exported' arrives (ui.ts 28-33) and processVisualAnalysis runs
\* to its first await (ui.ts 600-640)
FlowFramesExported ==
    /\ visionRun = "export"
    /\ exportedFrames' = ExportedFramesOf(page)
    /\ IF Len(exportedFrames') = 0
       THEN view' = "No frames found" /\ visionRun' = "done"
       ELSE view' = "vision analyzing" /\ visionRun' = "wait"
    /\ UNCHANGED <<opportunities, aiAnalysis, flowSummary, textRun, textResult,
                   visionResult, fetched, pass, FlowOthers>>

\* the awaited visual analysis is there: processVisualAnalysis runs to its end
FlowVisionCompletes ==
    /\ visionRun = "wait"
    /\ \E after \in {VisionEffect(PanelData, apiUrl, visionReply)} :
           /\ flowSummary' = after.flowSummary
           /\ view' = after.view
           /\ visionResult' = after.result
    /\ visionRun' = "done"
    /\ fetched' = fetched \cup FetchesOf(apiUrl, "/api/vision")
    /\ UNCHANGED <<opportunities, aiAnalysis, exportedFrames, textRun, textResult, pass,
                   FlowOthers>>

FlowNext ==
    \/ FlowAnalyzeClick
    \/ FlowTextCompletes
    \/ FlowVisualClick
    \/ FlowFramesExported
    \/ FlowVisionCompletes

SpecFlow == FlowInit /\ [][FlowNext]_vars

\* the analyses the summary shown was generated from
SummaryInput ==
    IF "analysisType" \in DOMAIN flowSummary THEN textResult ELSE visionResult

\* C19: a flow summary of N analysed screens has exactly N steps, step i
\* carries the index i and the name of the i-th screen of the page in scan
\* order, and screenCount is N.
C19_StepsInScanOrder ==
    flowSummary # JNull =>
        LET screens == ScreensOf(page)
        IN  /\ Len(SummaryInput) = Len(screens)
            /\ Len(flowSummary.flowSteps) = Len(screens)
            /\ flowSummary.screenCount = Len(screens)
            /\ \A i \in 1..Len(screens) :
                   /\ flowSummary.flowSteps[i].step = i
                   /\ flowSummary.flowSteps[i].frameName = screens[i].name

\* a summary of three screens whose analyses differ in category and whose
\* confidences are not in ascending or descending order
C19_Witness ==
    /\ flowSummary # JNull
    /\ Len(flowSummary.flowSteps) = 3
    /\ SummaryInput[1].suggestedEmailType # SummaryInput[2].suggestedEmailType
    /\ SummaryInput[1].confidence < SummaryInput[2].confidence
    /\ SummaryInput[3].confidence < SummaryInput[2].confidence

\* the first screen, in scan order, whose analysis has the category
FirstWith(frameAnalyses, type) ==
    CHOOSE k \in 1..Len(frameAnalyses) :
        /\ frameAnalyses[k].suggestedEmailType = type
        /\ \A h \in 1..(k - 1) : frameAnalyses[h].suggestedEmailType # type

\* C18: suggestedEmails holds every category of the analysed screens once,
\* in the order in which the categories first occur in scan order, and each
\* entry's name (and context, which only the analyses of the visual
\* channel carry) is that of the first screen with the category.
C18_OneEmailPerCategory ==
    flowSummary # JNull =>
        LET emails == flowSummary.suggestedEmails
            input == SummaryInput
        IN  /\ \A i, j \in 1..Len(emails) : emails[i].type = emails[j].type => i = j
            /\ { emails[i].type : i \in 1..Len(emails) }
                   = { input[k].suggestedEmailType : k \in 1..Len(input) }
            /\ \A i, j \in 1..Len(emails) :
                   i < j => FirstWith(input, emails[i].type) < FirstWith(input, emails[j].type)
            /\ \A i \in 1..Len(emails) :
                   LET first == input[FirstWith(input, emails[i].type)]
                   IN  /\ emails[i].name = first.suggestedEmailName
                       /\ "emailContext" \in DOMAIN first =>
                              emails[i].context = first.emailContext

\* a summary of three screens, the first and the third of the same category
\* with different names and contexts, the second of another category
C18_Witness ==
    /\ flowSummary # JNull
    /\ Len(SummaryInput) = 3
    /\ Len(flowSummary.suggestedEmails) = 2
    /\ SummaryInput[1].suggestedEmailType = SummaryInput[3].suggestedEmailType
    /\ SummaryInput[1].suggestedEmailName # SummaryInput[3].suggestedEmailName
    /\ "emailContext" \in DOMAIN SummaryInput[1]
    /\ SummaryInput[1].emailContext # SummaryInput[3].emailContext

\* the product types of the keyword groups, in the order of the chains
ProductTypes ==
    <<"E-commerce Platform", "SaaS Dashboard", "Booking Platform", "Web/Mobile Application">>

\* the keywords of generateCombinedFlowSummary, group by group
VisionGroupWords ==
    << <<"checkout", "cart", "order", "e-commerce">>,
       <<"dashboard", "overview", "analytics">>,
       <<"booking", "appointment", "schedule">>,
       <<"login", "registration", "auth">> >>

\* the keywords generateCombinedTextAnalysis looks for in the text, and
\* those it looks for in the purposes
TextGroupWords ==
    << <<"cart", "checkout", "order", "buy", "purchase", "price", "shipping">>,
       <<"dashboard", "analytics", "metrics", "report", "overview">>,
       <<"book", "appointment", "schedule", "calendar", "reserve">>,
       <<"login", "sign up", "register", "password", "email", "account">> >>

TextGroupPurposeWords ==
    << <<"e-commerce", "checkout", "order">>,
       <<"dashboard", "analytics">>,
       <<"booking", "appointment">>,
       <<"registration", "authentication">> >>

\* one of the words occurs in one of the strings, whatever the case
Occurs(words, strings) ==
    \E w \in 1..Len(words) : \E k \in 1..Len(strings) :
        includes(toLowerCase(strings[k]), words[w])

\* the raw text of every screen of the page
RawTexts ==
    LET screens == ScreensOf(page)
    IN  [i \in 1..Len(screens) |-> Join(TextContent(screens[i]), " ")]

\* the purpose texts of the analyses the summary was generated from
Purposes ==
    [k \in 1..Len(SummaryInput) |->
        IF "detectedPurpose" \in DOMAIN SummaryInput[k]
        THEN SummaryInput[k].detectedPurpose ELSE SummaryInput[k].userFlowPurpose]

EarliestProduct(groups) ==
    IF groups = {} THEN "Application"
    ELSE ProductTypes[CHOOSE g \in groups : \A h \in groups : g <= h]

\* the narrative of a summary ends with the generic description
GenericNarrative ==
    flowSummary.summary[Len(flowSummary.summary)]
        \in {"This design contains multiple screens that form a user journey through the application.",
             "This design contains multiple screens forming a user journey through the application."}

\* C20: in the summary of either channel a group matches when one of its
\* keywords occurs in a screen's purpose text or in a screen's raw text;
\* the earliest matching group in the order e-commerce, SaaS/dashboard,
\* booking, authentication gives the product type, and with no matching
\* group the type and the narrative are the generic ones.
C20_ProductTypeByFirstGroup ==
    flowSummary # JNull =>
        LET groups ==
                IF "analysisType" \in DOMAIN flowSummary
                THEN { g \in 1..4 : \/ Occurs(TextGroupWords[g], RawTexts)
                                    \/ Occurs(TextGroupPurposeWords[g], Purposes) }
                ELSE { g \in 1..4 : \/ Occurs(VisionGroupWords[g], RawTexts)
                                    \/ Occurs(VisionGroupWords[g], Purposes) }
        IN  /\ flowSummary.productType = EarliestProduct(groups)
            /\ groups = {} => GenericNarrative

\* ui.ts 76: the name a card shows (opp.visualAnalysis is set nowhere)
DisplayName(opp) ==
    IF opp.aiAnalysis # [k |-> "undefined"] /\ ~Falsy(opp.aiAnalysis.suggestedEmailName)
    THEN FromWire(opp.aiAnalysis.suggestedEmailName)
    ELSE _formatEmailType(opp.type)

\* ui.ts 73-78: category, confidence and name of the card of an opportunity
CardOf(opp) ==
    [type |-> opp.type, confidence |-> opp.confidence, name |-> DisplayName(opp)]

\* what a channel's record says about category, confidence and name
CardOfRecord(r) ==
    [type |-> r.suggestedEmailType, confidence |-> r.confidence, name |-> r.suggestedEmailName]

\* the records of the visual channel for the frame
VisionRecordsFor(frameId) ==
    { n \in 1..Len(visionResult) : visionResult[n].frameId = frameId }

\* the records of the text channel for the frame (plain records from the
\* demo analysis, records as received from the endpoint otherwise)
TextRecordsFor(frameId) ==
    { n \in 1..Len(textResult) :
        IF apiUrl = "" THEN textResult[n].frameId = frameId
        ELSE textResult[n].frameId = Str(frameId) }

TextCard(n) ==
    IF apiUrl = "" THEN CardOfRecord(textResult[n])
    ELSE [type |-> textResult[n].suggestedEmailType.v,
          confidence |-> textResult[n].confidence.v,
          name |-> textResult[n].suggestedEmailName.v]

\* the opportunity the last detection pass made for the frame
HeuristicCard(k) ==
    LET detected == detectEmailOpportunities(page, textRun # "idle")[k]
    IN  [type |-> detected.type, confidence |-> detected.confidence,
         name |-> _formatEmailType(detected.type)]

\* C15: the category, confidence and display name of every opportunity are
\* those of the visual channel's record for its frame when there is one,
\* else those of the text channel's record when there is one, else those of
\* the heuristic pass.
C15_VisionOverTextOverHeuristic ==
    \A k \in 1..Len(opportunities) :
        LET v == VisionRecordsFor(opportunities[k].frameId)
            t == TextRecordsFor(opportunities[k].frameId)
        IN  CardOf(opportunities[k]) =
                IF v # {} THEN CardOfRecord(visionResult[CHOOSE n \in v : TRUE])
                ELSE IF t # {} THEN TextCard(CHOOSE n \in t : TRUE)
                ELSE HeuristicCard(k)

\* what the panel shows of its data: the cards and the flow summary
Visible(opps, summary) ==
    [cards |-> [k \in 1..Len(opps) |-> CardOf(opps[k])], flowSummary |-> summary]

\* the panel's data when, for this page and these replies, the text
\* channel completes first and the visual channel after it
TextFirst ==
    LET frames == ExportedFramesOf(page)
        start == [ opportunities |-> detectEmailOpportunities(page, TRUE),
                   aiAnalysis |-> EmptyMap, flowSummary |-> JNull,
                   exportedFrames |-> frames ]
        t == TextEffect(start, page, apiUrl, textReply)
    IN  IF frames = <<>> THEN t
        ELSE VisionEffect([ opportunities |-> t.opportunities, aiAnalysis |-> t.aiAnalysis,
                            flowSummary |-> t.flowSummary, exportedFrames |-> frames ],
                          apiUrl, visionReply)

\* C17: once both channels have completed, the cards and the flow summary
\* are those of the run in which the text channel completed first, in
\* whichever order the two completed.
C17_CompletionOrderIrrelevant ==
    (textRun = "done" /\ visionRun = "done") =>
        Visible(opportunities, flowSummary)
            = Visible(TextFirst.opportunities, TextFirst.flowSummary)

(***************************************************************************)
(* parseAnalysisResponse on replies built around one JSON array: some text *)
(* before it, the array of up to MaxItems items, some text after it.       *)
(***************************************************************************)
MaxItems == 2

\* a record whose fields are present but not of the documented shape
ItemWrong ==
    Obj([ frameId            |-> Str("1:1"),
          frameName          |-> Num(7),
          detectedPurpose    |-> Num(42),
          suggestedEmailType |-> Arr(<<>>),
          suggestedEmailName |-> Obj([en |-> Str("Welcome")]),
          confidence         |-> Str("high"),
          reasoning          |-> Num(1),
          suggestedVariables |-> Str("user_name") ])

ParseItemPool == {ItemFull, ItemOdd, ItemWrong, JNull, Str("n/a")}

RECURSIVE ItemLists(_)
ItemLists(n) ==
    IF n = 0 THEN {<<>>}
    ELSE { <<item>> \o rest : item \in ParseItemPool, rest \in ItemLists(n - 1) }

TextBefore == { <<>>, <<Prose>>, <<Prose, RBracket, Prose>> }

TextAfter == { <<>>, <<Prose>>, <<Prose, RBracket>>, <<Prose, LBracket, Prose, RBracket>> }

ParseTexts ==
    { before \o ArrayText(items) \o after :
        before \in TextBefore,
        items \in UNION { ItemLists(n) : n \in 0..MaxItems },
        after \in TextAfter }

ParseInit ==
    /\ aFrames \in RequestFrameLists
    /\ aOutcome \in { [kind |-> "text", text |-> t] : t \in ParseTexts }
    /\ aResponse = [status |-> 0]
    /\ HeurIdle
    /\ VisionIdle
    /\ PanelIdle
    /\ RestIdle

\* the handler answers for the reply received (analyze.ts 83-88)
ParseResponds ==
    /\ aResponse.status = 0
    /\ aResponse' = AnalyzeHandler(aFrames, aOutcome)
    /\ UNCHANGED <<aFrames, aOutcome, heurVars, visionVars, panelVars, restVars>>

ParseNext == ParseResponds

SpecParse == ParseInit /\ [][ParseNext]_vars

(***************************************************************************)
(* Statements about the parsing of a reply.                                *)
(***************************************************************************)
\* the array the parser read from the reply, or SyntaxError
ParsedArray == JsonParse(MatchArray(aOutcome.text))

Responded == aResponse.status = HttpOk

StringDefaults ==
    [ frameId            |-> "",
      frameName          |-> "",
      detectedPurpose    |-> "Unknown purpose",
      suggestedEmailType |-> "generic_transactional",
      suggestedEmailName |-> "Transactional Email",
      reasoning          |-> "" ]

\* the value documented for field f of a record read from item
Documented(item, f) ==
    IF f \in DOMAIN StringDefaults
    THEN IF Get(item, f).k = "string" THEN Get(item, f) ELSE Str(StringDefaults[f])
    ELSE IF f = "confidence"
    THEN IF Get(item, f).k = "number" THEN Get(item, f) ELSE Num(50)
    ELSE IF Get(item, f).k = "array" THEN Get(item, f) ELSE Arr(<<>>)

AnalysisFields == DOMAIN StringDefaults \cup {"confidence", "suggestedVariables"}

\* C21: for every record of a parsed array, a field that is missing or of
\* the wrong shape is replaced by its documented default (placeholder,
\* generic_transactional, 0.5, the empty list) and a field of the right
\* shape is returned unchanged.
C21_FieldDefaults ==
    (/\ Responded
     /\ ParsedArray.k = "array"
     /\ \A i \in 1..Len(ParsedArray.v) : ParsedArray.v[i].k = "object")
    => /\ Len(aResponse.analysis) = Len(ParsedArray.v)
       /\ \A i \in 1..Len(ParsedArray.v) : \A f \in AnalysisFields :
              aResponse.analysis[i][f] = Documented(ParsedArray.v[i], f)

\* the items of the array that are not objects
Malformed(items) == { i \in 1..Len(items) : items[i].k # "object" }

\* C22: one malformed item (null, a non-object value) in an otherwise valid
\* array affects only that record: every other record is returned with its
\* own frame id and confidence and is not a failure stub.
C22_MalformedRecordIsLocal ==
    (/\ Responded
     /\ ParsedArray.k = "array"
     /\ Cardinality(Malformed(ParsedArray.v)) = 1)
    => /\ Len(aResponse.analysis) = Len(ParsedArray.v)
       /\ \A i \in (1..Len(ParsedArray.v)) \ Malformed(ParsedArray.v) :
              /\ aResponse.analysis[i].frameId = Get(ParsedArray.v[i], "frameId")
              /\ aResponse.analysis[i].confidence = Documented(ParsedArray.v[i], "confidence")
              /\ aResponse.analysis[i].reasoning # Str("AI analysis failed, using fallback")

\* the position of the "]" that closes the bracket opened before position
\* i at nesting depth, 0 when there is none
RECURSIVE ClosingAt(_, _, _)
ClosingAt(text, i, depth) ==
    IF i > Len(text) THEN 0
    ELSE IF text[i] = LBracket THEN ClosingAt(text, i + 1, depth + 1)
    ELSE IF text[i] = RBracket
         THEN IF depth = 1 THEN i ELSE ClosingAt(text, i + 1, depth - 1)
    ELSE ClosingAt(text, i + 1, depth)

\* the first balanced bracketed part of the text: from its first "[" to the
\* "]" that closes it
FirstBalanced(text) ==
    LET opens == { i \in 1..Len(text) : text[i] = LBracket }
    IN  IF opens = {} THEN NoMatch
        ELSE LET first == CHOOSE i \in opens : \A j \in opens : i <= j
             IN  IF ClosingAt(text, first + 1, 1) = 0 THEN NoMatch
                 ELSE SubSeq(text, first, ClosingAt(text, first + 1, 1))

\* the text holds a "[" or "]" outside its first balanced part
BracketsElsewhere(text) ==
    Cardinality({ i \in 1..Len(text) : text[i] \in {LBracket, RBracket} })
        > Cardinality({ i \in 1..Len(FirstBalanced(text)) :
                            FirstBalanced(text)[i] \in {LBracket, RBracket} })

\* C25: when the reply holds a valid JSON array and other text with "[" or
\* "]" in it, the records of the first balanced array are returned, not the
\* failure stubs.
C25_FirstBalancedArray ==
    (/\ Responded
     /\ BracketsElsewhere(aOutcome.text)
     /\ JsonParse(FirstBalanced(aOutcome.text)).k = "array"
     /\ \A i \in 1..Len(JsonParse(FirstBalanced(aOutcome.text)).v) :
            JsonParse(FirstBalanced(aOutcome.text)).v[i].k = "object")
    => aResponse.analysis =
           [i \in 1..Len(JsonParse(FirstBalanced(aOutcome.text)).v) |->
               AnalysisOfItem(JsonParse(FirstBalanced(aOutcome.text)).v[i])]

(***************************************************************************)
(* Statements about the panel without an api url.                          *)
(***************************************************************************)
TextCompletes == textRun # "done" /\ textRun' = "done"

VisionEnds == visionRun # "done" /\ visionRun' = "done"

\* the demo analyses of the frames exported
MockVisualAnalyses(frames) ==
    [i \in 1..Len(frames) |-> generateMockVisualAnalysis(frames[i])]

\* what every step leaves without an api url: no fetch() made, no error
\* shown, and a text run ends with its summary computed from the list and
\* the text of the page
LocalTextResult ==
    /\ fetched' = {}
    /\ view' \notin ErrorViews
    /\ TextCompletes =>
          /\ view' = "text-summary"
          /\ flowSummary' = generateCombinedTextAnalysis(
                                MockFrameAnalyses(opportunities', page))

LocalVisualResult ==
    /\ view' = "flow-summary"
    /\ flowSummary' = generateCombinedFlowSummary(MockVisualAnalyses(exportedFrames'))

MessageHandled == pluginToUi # <<>> /\ pluginToUi' = Tail(pluginToUi)

\* C24: after an 'opportunities-detected' message is handled, the panel's
\* list is exactly the list of that message; nothing of the list held
\* before (entries, categories, confidences, attached analyses) remains.
C24_ListReplacedWholesale ==
    [][(MessageHandled /\ Head(pluginToUi).type = "opportunities-detected") =>
          /\ opportunities' = Head(pluginToUi).opportunities
          /\ \A k \in 1..Len(opportunities') :
                 opportunities'[k].aiAnalysis = [k |-> "undefined"]]_vars

\* a pass has been shown after an analysis had been applied: a frame with
\* a record in the aiAnalysis map is listed without an attached analysis
C24_Witness ==
    /\ view = "list"
    /\ pass >= 2
    /\ pluginToUi = <<>>
    /\ \E k \in 1..Len(opportunities) :
           /\ Str(opportunities[k].frameId) \in DOMAIN aiAnalysis
           /\ opportunities[k].aiAnalysis = [k |-> "undefined"]

(***************************************************************************)
(* Statements about the order of the vision endpoint's model calls.        *)
(***************************************************************************)
\* C26: within one vision request at most one model call is in flight; a
\* call starts only when none is pending, for the frame that follows the
\* frames already answered, each of which has its result or its fallback.
C26_OneCallAtATime ==
    [][/\ Cardinality(vInFlight') <= 1
       /\ \A i \in vInFlight' \ vInFlight :
              /\ vInFlight = {}
              /\ i = Len(vAnalyses) + 1
              /\ Len(vCalls) = i - 1
              /\ \A j \in 1..(i - 1) :
                     vAnalyses[j].frameId = Str(vFrames[j].frameId)]_vars

\* the call for the third frame is pending after the first call replied and
\* the second one failed and got its fallback
C26_Witness ==
    /\ vInFlight = {3}
    /\ Len(vAnalyses) = 2
    /\ vCalls[1].kind = "text"
    /\ vCalls[2].kind = "throw"
    /\ IsFixedFallback(vAnalyses[2])

(***************************************************************************)
(* Statements about analyzeWithAI and the scan it asks for.                *)
(***************************************************************************)
\* invocation i builds and sends its request in this step
Sends(i) ==
    /\ analyses[i].pc = "wait"
    /\ Len(analyses') = Len(analyses)
    /\ analyses'[i].pc = "fetch"

\* the entries of the list that carry an applied analysis
Analysed(opps) == { k \in 1..Len(opps) : opps[k].aiAnalysis # [k |-> "undefined"] }

\* C27: the frames an analyzeWithAI invocation sends are those of the
\* scan-all pass it requested itself (the pass shown when it sends is the
\* one it asked for), however late the plugin replies; and a reply handled
\* after an analysis was applied leaves that analysis on every frame that
\* is still listed.
C27_SendsOwnScan ==
    [][/\ \A i \in 1..Len(analyses) :
              Sends(i) =>
                  /\ analyses'[i].pass = analyses[i].due
                  /\ analyses'[i].frames = FramesData(opportunities)
       /\ MessageHandled =>
              \A k \in Analysed(opportunities) : \A n \in 1..Len(opportunities') :
                  opportunities'[n].frameId = opportunities[k].frameId =>
                      opportunities'[n].aiAnalysis = opportunities[k].aiAnalysis]_vars

(***************************************************************************)
(* The panel and the plugin around 'Visual Analysis': the panel posts      *)
(* 'export-frames-visual' (ui.ts 580-598) and figma.ui.onmessage (code.ts  *)
(* 849-887) handles what it is sent.  The handler has the branches         *)
(* 'detect-opportunities', 'create-email' and 'close' and no other; no     *)
(* code of the plugin posts 'frames-exported', so the panel's handler of   *)
(* that message (ui.ts 28-33) is never entered here.                       *)
(***************************************************************************)
ExportRequest == [type |-> "export-frames-visual"]

HandledTypes == {"detect-opportunities", "create-email", "close"}

ExportInit ==
    /\ page \in FlowPages
    /\ initialScan = FALSE
    /\ uiToPlugin = <<>>
    /\ pluginToUi = <<>>
    /\ opportunities = detectEmailOpportunities(page, FALSE)
    /\ aiAnalysis = EmptyMap
    /\ view = "list"
    /\ analyses = <<>>
    /\ pass = 1
    /\ HeurIdle
    /\ AnalyzeIdle
    /\ VisionIdle
    /\ RestIdle

\* startVisualAnalysis (ui.ts 580-598)
startVisualAnalysis ==
    /\ visionRun = "idle"
    /\ view' = "capturing"
    /\ visionRun' = "export"
    /\ uiToPlugin' = Append(uiToPlugin, ExportRequest)
    /\ UNCHANGED <<page, initialScan, pluginToUi, opportunities, aiAnalysis, analyses, pass,
                   apiUrl, exportedFrames, flowSummary, textRun, textReply, visionReply,
                   textResult, visionResult, fetched, heurVars, analyzeVars, visionVars,
                   joinVars, emailVars>>

\* figma.ui.onmessage (code.ts 849-887) for a message whose type none of
\* its three tests matches: the handler returns without doing anything
PluginNoBranch ==
    /\ uiToPlugin # <<>>
    /\ Head(uiToPlugin).type \notin HandledTypes
    /\ uiToPlugin' = Tail(uiToPlugin)
    /\ UNCHANGED <<page, initialScan, pluginToUi, opportunities, aiAnalysis, view, analyses,
                   pass, Others>>

ExportNext ==
    \/ startVisualAnalysis
    \/ PluginNoBranch
    \/ refreshOpportunities
    \/ PluginDetect
    \/ OnOpportunitiesDetected

SpecExport == ExportInit /\ [][ExportNext]_vars

\* the plugin takes the panel's export request in this step
ExportRequestTaken ==
    /\ uiToPlugin # <<>>
    /\ Head(uiToPlugin) = ExportRequest
    /\ uiToPlugin' = Tail(uiToPlugin)

\* C28: every visual-analysis request completes.  Its first half, which a
\* single step decides: when the plugin has handled 'export-frames-visual',
\* a 'frames-exported' message is on its way to the panel (the message that
\* takes the panel out of 'Capturing frames').
C28_ExportIsAnswered ==
    [][ExportRequestTaken =>
           \E n \in 1..Len(pluginToUi') : pluginToUi'[n].type = "frames-exported"]_vars

(***************************************************************************)
(* The email generator of the panel (ui.ts 117-314) and the plugin's       *)
(* handling of 'create-email' (code.ts 864-882, 724-814).  The modal hides *)
(* the list while an opportunity is selected, so 'Generate Email' is       *)
(* clicked with the modal closed, and close, regenerate and insert with    *)
(* the modal open.  Every callAIAPI promise resolves 2000 ms after its     *)
(* call, so the pending promises resolve oldest first.                     *)
(***************************************************************************)
MaxGenerations == 3

NoCurrent == [id |-> "null"]

\* callAIAPI (ui.ts 174-280): mockResponses; a body is written as its first
\* sentence after the greeting
mockResponses ==
    [ welcome_email |->
          [ subject |-> "Welcome to [Product Name]!",
            body    |-> "Welcome aboard! We're thrilled to have you join [Product Name]." ],
      order_confirmation |->
          [ subject |-> "Order #{{order_number}} confirmed!",
            body    |-> "Great news! Your order is confirmed." ],
      password_reset |->
          [ subject |-> "Reset your password",
            body    |-> "We received a request to reset your password." ],
      email_verification |->
          [ subject |-> "Please verify your email address",
            body    |-> "Thanks for signing up! Please verify your email address to get started." ],
      generic_transactional |->
          [ subject |-> "Action required: [Action Name]",
            body    |-> "We wanted to let you know that your action was received." ] ]

\* ui.ts 277: mockResponses[opportunity.type] || mockResponses['generic_transactional']
callAIAPI(opportunity) ==
    IF opportunity.type \in DOMAIN mockResponses
    THEN mockResponses[opportunity.type]
    ELSE mockResponses["generic_transactional"]

FontFamilies == {"Inter", "Roboto", "Arial"}

FontStyles == {"Regular", "Bold"}

\* the sets of fonts a document's environment can offer
FontSets == SUBSET (FontFamilies \X FontStyles)

\* loadFontWithFallback (code.ts 724-742): some font of fontsToTry loads
FontLoads(style) == \E family \in FontFamilies : <<family, style>> \in fonts

\* the panel after the start-up scan of the page has been shown
ListShown ==
    /\ page \in Pages
    /\ initialScan = FALSE
    /\ pluginToUi = <<>>
    /\ opportunities = detectEmailOpportunities(page, FALSE)
    /\ aiAnalysis = EmptyMap
    /\ view = "list"
    /\ analyses = <<>>
    /\ pass = 1
    /\ HeurIdle
    /\ AnalyzeIdle
    /\ VisionIdle
    /\ JoinIdle
    /\ FlowIdle

GeneratorInit ==
    /\ ListShown
    /\ uiToPlugin = <<>>
    /\ currentOpportunity = NoCurrent
    /\ subjectInput = ""
    /\ bodyInput = ""
    /\ copyCalls = <<>>
    /\ generation = 0
    /\ fonts = {}
    /\ notifications = <<>>
    /\ creating = <<>>

EmailOthers ==
    <<heurVars, analyzeVars, visionVars, joinVars, flowVars, initialScan, pluginToUi,
      opportunities, aiAnalysis, view, analyses, pass, fonts>>

\* generateEmail(opportunityId) up to its await (ui.ts 117-146)
generateEmail(opportunityId) ==
    LET found == { k \in 1..Len(opportunities) : opportunities[k].id = opportunityId }
    IN  IF found = {}
        THEN /\ currentOpportunity' = NoCurrent
             /\ UNCHANGED <<subjectInput, bodyInput, copyCalls, generation>>
        ELSE \E k \in found :
                /\ \A j \in found : k <= j
                /\ currentOpportunity' = opportunities[k]
                /\ subjectInput' = "Generating..."
                /\ bodyInput' = "Generating email copy..."
                /\ copyCalls' = Append(copyCalls, [opportunity |-> opportunities[k],
                                                   generation |-> generation + 1])
                /\ generation' = generation + 1

\* click on 'Generate Email' of a card of the list
GenerateClick ==
    /\ currentOpportunity = NoCurrent
    /\ generation < MaxGenerations
    /\ \E k \in 1..Len(opportunities) : generateEmail(opportunities[k].id)
    /\ UNCHANGED <<page, uiToPlugin, notifications, creating, EmailOthers>>

\* regenerateCopy (ui.ts 289-294)
regenerateCopy ==
    /\ currentOpportunity # NoCurrent
    /\ generation < MaxGenerations
    /\ generateEmail(currentOpportunity.id)
    /\ UNCHANGED <<page, uiToPlugin, notifications, creating, EmailOthers>>

\* closeGenerator (ui.ts 282-288)
closeGenerator ==
    /\ currentOpportunity # NoCurrent
    /\ currentOpportunity' = NoCurrent
    /\ UNCHANGED <<subjectInput, bodyInput, copyCalls, generation, page, uiToPlugin,
                   notifications, creating, EmailOthers>>

\* the oldest callAIAPI promise resolves and its generateEmail continues
\* (ui.ts 147-157)
CopyResolves ==
    /\ copyCalls # <<>>
    /\ subjectInput' = callAIAPI(Head(copyCalls).opportunity).subject
    /\ bodyInput' = callAIAPI(Head(copyCalls).opportunity).body
    /\ copyCalls' = Tail(copyCalls)
    /\ UNCHANGED <<currentOpportunity, generation, page, uiToPlugin, notifications,
                   creating, EmailOthers>>

CreateEmail(emailType, subject, body) ==
    [type |-> "create-email", emailType |-> emailType, subject |-> subject, body |-> body]

\* insertIntoFigma (ui.ts 296-314)
insertIntoFigma ==
    /\ currentOpportunity # NoCurrent
    /\ uiToPlugin' = Append(uiToPlugin,
                            CreateEmail(currentOpportunity.type, subjectInput, bodyInput))
    /\ currentOpportunity' = NoCurrent
    /\ UNCHANGED <<subjectInput, bodyInput, copyCalls, generation, page, notifications,
                   creating, EmailOthers>>

\* the ids of the two frames the n-th createEmailFrame call creates
Digit(n) == SubSeq("0123456789", n + 1, n + 1)

EmailFrameId(n) == "9:" \o Digit(2 * n - 1)

EmailContainerId(n) == "9:" \o Digit(2 * n)

\* createHeader (code.ts 816-832)
Header ==
    [type |-> "FRAME", name |-> "Header", width |-> 480, height |-> 60,
     children |-> << [type |-> "RECTANGLE", name |-> "Logo"] >>]

\* code.ts 753-756: figma.createFrame() puts the new frame on the current page
EmailFrame(n, emailType, children) ==
    [id |-> EmailFrameId(n), name |-> "Email - " \o _formatEmailType(emailType),
     type |-> "FRAME", width |-> 600, height |-> 800, children |-> children]

\* code.ts 759-778: the container, a frame of the page as well until it is
\* appended to the email frame
EmailContainer(n, children) ==
    [id |-> EmailContainerId(n), name |-> "Email Content", type |-> "FRAME",
     width |-> 560, height |-> 760, children |-> children]

\* the 'create-email' messages taken so far
CreateCalls == Len(notifications) + Len(creating)

\* figma.ui.onmessage takes 'create-email' (code.ts 864-875) and
\* createEmailFrame runs to its first font request (code.ts 745-781)
PluginCreateEmail ==
    /\ uiToPlugin # <<>>
    /\ Head(uiToPlugin).type = "create-email"
    /\ uiToPlugin' = Tail(uiToPlugin)
    /\ page' = page \o << EmailFrame(CreateCalls + 1, Head(uiToPlugin).emailType, <<>>),
                          EmailContainer(CreateCalls + 1, <<Header>>) >>
    /\ creating' = Append(creating, [msg |-> Head(uiToPlugin), n |-> CreateCalls + 1])
    /\ UNCHANGED <<currentOpportunity, subjectInput, bodyInput, copyCalls, generation,
                   notifications, EmailOthers>>

\* code.ts 784-808: the two text nodes of the container
EmailTexts(msg) ==
    << [type |-> "TEXT", name |-> "Subject", characters |-> "Subject: " \o msg.subject],
       [type |-> "TEXT", name |-> "Body", characters |-> msg.body] >>

\* the page after frame.appendChild(emailContainer) of call c (code.ts 810)
PageWithEmail(nodes, c) ==
    [i \in 1..Len(SelectSeq(nodes, LAMBDA node : node.id # EmailContainerId(c.n))) |->
        IF SelectSeq(nodes, LAMBDA node : node.id # EmailContainerId(c.n))[i].id
               = EmailFrameId(c.n)
        THEN EmailFrame(c.n, c.msg.emailType,
                        << EmailContainer(c.n, <<Header>> \o EmailTexts(c.msg)) >>)
        ELSE SelectSeq(nodes, LAMBDA node : node.id # EmailContainerId(c.n))[i]]

\* both fonts load: createEmailFrame runs to its end and the handler
\* notifies success (code.ts 780-813, 877); the texts of the notifications
\* are written without their leading emoji
PluginCreateSucceeds ==
    \E i \in 1..Len(creating) :
        /\ FontLoads("Bold") /\ FontLoads("Regular")
        /\ page' = PageWithEmail(page, creating[i])
        /\ notifications' = Append(notifications, "Email template created!")
        /\ creating' = RemoveAt(creating, i)
        /\ UNCHANGED <<currentOpportunity, subjectInput, bodyInput, copyCalls, generation,
                       uiToPlugin, EmailOthers>>

\* loadFontWithFallback throws (code.ts 741): the handler's catch notifies
\* the error (code.ts 877-880)
PluginCreateFails ==
    \E i \in 1..Len(creating) :
        /\ ~(FontLoads("Bold") /\ FontLoads("Regular"))
        /\ notifications' = Append(notifications,
                                   "Error creating email: No suitable font found")
        /\ creating' = RemoveAt(creating, i)
        /\ UNCHANGED <<currentOpportunity, subjectInput, bodyInput, copyCalls, generation,
                       page, uiToPlugin, EmailOthers>>

\* the generator of the panel on its own: what it posts stays in uiToPlugin
GeneratorNext ==
    \/ GenerateClick
    \/ regenerateCopy
    \/ closeGenerator
    \/ CopyResolves
    \/ insertIntoFigma

SpecGenerator == GeneratorInit /\ [][GeneratorNext]_vars

\* the plugin on its own, with up to MaxCreates 'create-email' messages to
\* handle
MaxCreates == 2

CreateMessages ==
    { CreateEmail("welcome_email", mockResponses["welcome_email"].subject,
                  mockResponses["welcome_email"].body),
      CreateEmail("password_reset", "Generating...", "Generating email copy...") }

RECURSIVE MessageLists(_)
MessageLists(n) ==
    IF n = 0 THEN {<<>>}
    ELSE { <<m>> \o rest : m \in CreateMessages, rest \in MessageLists(n - 1) }

CreateInit ==
    /\ ListShown
    /\ uiToPlugin \in UNION { MessageLists(n) : n \in 0..MaxCreates }
    /\ currentOpportunity = NoCurrent
    /\ subjectInput = ""
    /\ bodyInput = ""
    /\ copyCalls = <<>>
    /\ generation = 0
    /\ fonts \in FontSets
    /\ notifications = <<>>
    /\ creating = <<>>

CreateNext ==
    \/ PluginCreateEmail
    \/ PluginCreateSucceeds
    \/ PluginCreateFails

SpecCreate == CreateInit /\ [][CreateNext]_vars

(***************************************************************************)
(* Statements about the email generator and about 'create-email'.          *)
(***************************************************************************)
\* the panel posts a message in this step
Posts == Len(uiToPlugin') = Len(uiToPlugin) + 1

\* the oldest pending reply is written into the inputs in this step
ReplyWritten == copyCalls # <<>> /\ copyCalls' = Tail(copyCalls)

\* the reply belongs to the generation the modal is showing
OfCurrentGeneration(call) ==
    /\ currentOpportunity # NoCurrent
    /\ call.generation = generation

\* C29: whatever the interleaving of generate, regenerate, close, insert
\* and pending replies, a 'create-email' message is posted only while an
\* opportunity is selected and carries that opportunity's type with the
\* subject and body generated for it; and the reply of a closed or
\* superseded generation is not written into the inputs.
C29_CreateEmailCarriesOwnCopy ==
    [][/\ Posts =>
              /\ currentOpportunity # NoCurrent
              /\ uiToPlugin'[Len(uiToPlugin')].type = "create-email"
              /\ uiToPlugin'[Len(uiToPlugin')].emailType = currentOpportunity.type
              /\ uiToPlugin'[Len(uiToPlugin')].subject
                     = callAIAPI(currentOpportunity).subject
              /\ uiToPlugin'[Len(uiToPlugin')].body = callAIAPI(currentOpportunity).body
       /\ (ReplyWritten /\ ~OfCurrentGeneration(Head(copyCalls))) =>
              /\ subjectInput' = subjectInput
              /\ bodyInput' = bodyInput]_vars

\* invocation i of the 'create-email' handler ends in its catch block
CreateFailed(i) ==
    /\ ~(FontLoads("Bold") /\ FontLoads("Regular"))
    /\ creating' = RemoveAt(creating, i)
    /\ Len(notifications') = Len(notifications) + 1

\* the nodes of the page that call n of createEmailFrame created
CreatedBy(nodes, n) ==
    { k \in 1..Len(nodes) : nodes[k].id \in {EmailFrameId(n), EmailContainerId(n)} }

\* C30: a 'create-email' request that fails (no font of Inter, Roboto,
\* Arial loads) notifies the error and not the success, leaves the plugin
\* able to take the next message, and leaves no new or partly built email
\* frame on the page.
C30_FailedCreateLeavesNoFrame ==
    [][\A i \in 1..Len(creating) :
           CreateFailed(i) =>
               /\ notifications'
                      = Append(notifications, "Error creating email: No suitable font found")
               /\ uiToPlugin # <<>> => ENABLED PluginCreateEmail
               /\ CreatedBy(page', creating[i].n) = {}]_vars

====
